---- MODULE Spec2Model ----
(***************************************************************************)
(* A model of the github_mcp_server repository.                            *)
(*                                                                         *)
(* The repository holds two server programs.  src/unnamed/part_000 is the  *)
(* validated server: a context store (an in-memory Map of contexts, each   *)
(* with a plain object `files` keyed by path) and the commit builder       *)
(* (POST /v1/push_files, PUT /commit) that talks to the GitHub git data    *)
(* API through Octokit.  src/server.js is the earlier server: the same     *)
(* context store without validation, plus the hourly cleanup sweep.        *)
(*                                                                         *)
(* Text is a sequence of UTF-16 code units, as a JavaScript string is.     *)
(* Bytes are numbers 0..255, base64 text is a sequence of sextets 0..63    *)
(* with 64 standing for the padding character '='.                         *)
(***************************************************************************)
EXTENDS Integers, Sequences, FiniteSets, TLC

VARIABLES
    contextStore,   \* the Map contextStore: context id -> context
    now,            \* the wall clock in milliseconds (Date.now(), new Date())
    res,            \* the response sent by the step just taken, if it was a request
    issued,         \* every context id /v1/init has returned so far
    sweepDue,       \* server.js: the time the cleanup timer is next due
    refs,           \* GitHub: branch -> sha of its head commit (repo r1)
    commits,        \* GitHub: the commit objects; a commit's sha is its index
    att             \* the requests in progress: attempt -> its locals

storeVars == <<contextStore, now, res, issued, sweepDue>>
commitVars == <<refs, commits, att>>
vars == <<contextStore, now, res, issued, sweepDue, refs, commits, att>>

(***************************************************************************)
(* Content codec: encodeContent / decodeContent                            *)
(***************************************************************************)
IsHighSurrogate(c) == c >= 55296 /\ c <= 56319
IsLowSurrogate(c) == c >= 56320 /\ c <= 57343

\* Buffer.from(text, 'utf8'): an unpaired surrogate becomes U+FFFD (EF BF BD).
RECURSIVE Utf8Bytes(_)
Utf8Bytes(s) ==
    IF s = <<>> THEN <<>>
    ELSE LET c == Head(s) IN
        IF c < 128 THEN <<c>> \o Utf8Bytes(Tail(s))
        ELSE IF c < 2048
        THEN <<192 + (c \div 64), 128 + (c % 64)>> \o Utf8Bytes(Tail(s))
        ELSE IF IsHighSurrogate(c) /\ Len(s) >= 2 /\ IsLowSurrogate(s[2])
        THEN LET cp == 65536 + (c - 55296) * 1024 + (s[2] - 56320) IN
             <<240 + (cp \div 262144), 128 + ((cp \div 4096) % 64),
               128 + ((cp \div 64) % 64), 128 + (cp % 64)>>
             \o Utf8Bytes(Tail(Tail(s)))
        ELSE IF IsHighSurrogate(c) \/ IsLowSurrogate(c)
        THEN <<239, 191, 189>> \o Utf8Bytes(Tail(s))
        ELSE <<224 + (c \div 4096), 128 + ((c \div 64) % 64), 128 + (c % 64)>>
             \o Utf8Bytes(Tail(s))

IsCont(b, i) == i <= Len(b) /\ b[i] >= 128 /\ b[i] <= 191

\* the second byte of a three- or four-byte sequence that starts with c
\* may be b2 (E0, ED, F0 and F4 narrow the range: no overlong form, no
\* surrogate, nothing above U+10FFFF)
SecondOk(c, b2) ==
    /\ b2 >= (IF c = 224 THEN 160 ELSE IF c = 240 THEN 144 ELSE 128)
    /\ b2 <= (IF c = 237 THEN 159 ELSE IF c = 244 THEN 143 ELSE 191)

\* buffer.toString('utf8'): a byte that starts no well-formed sequence
\* decodes to U+FFFD, and so does, as a whole, the longest beginning of a
\* well-formed sequence that is cut short.
RECURSIVE Utf8Text(_)
Utf8Text(b) ==
    IF b = <<>> THEN <<>>
    ELSE LET c == Head(b)
             rest(n) == Utf8Text(SubSeq(b, n + 1, Len(b)))
         IN
        IF c < 128 THEN <<c>> \o rest(1)
        ELSE IF c >= 194 /\ c <= 223
        THEN IF IsCont(b, 2)
             THEN <<(c - 192) * 64 + (b[2] - 128)>> \o rest(2)
             ELSE <<65533>> \o rest(1)
        ELSE IF c >= 224 /\ c <= 239
        THEN IF Len(b) >= 2 /\ SecondOk(c, b[2])
             THEN IF IsCont(b, 3)
                  THEN <<(c - 224) * 4096 + (b[2] - 128) * 64 + (b[3] - 128)>>
                       \o rest(3)
                  ELSE <<65533>> \o rest(2)
             ELSE <<65533>> \o rest(1)
        ELSE IF c >= 240 /\ c <= 244
        THEN IF Len(b) >= 2 /\ SecondOk(c, b[2])
             THEN IF IsCont(b, 3)
                  THEN IF IsCont(b, 4)
                       THEN LET cp == (c - 240) * 262144 + (b[2] - 128) * 4096
                                      + (b[3] - 128) * 64 + (b[4] - 128) - 65536
                            IN <<55296 + (cp \div 1024), 56320 + (cp % 1024)>>
                               \o rest(4)
                       ELSE <<65533>> \o rest(3)
                  ELSE <<65533>> \o rest(2)
             ELSE <<65533>> \o rest(1)
        ELSE <<65533>> \o rest(1)

Pad == 64

\* buffer.toString('base64')
RECURSIVE Base64(_)
Base64(b) ==
    IF b = <<>> THEN <<>>
    ELSE IF Len(b) = 1
    THEN <<b[1] \div 4, (b[1] % 4) * 16, Pad, Pad>>
    ELSE IF Len(b) = 2
    THEN <<b[1] \div 4, (b[1] % 4) * 16 + (b[2] \div 16), (b[2] % 16) * 4, Pad>>
    ELSE <<b[1] \div 4, (b[1] % 4) * 16 + (b[2] \div 16),
           (b[2] % 16) * 4 + (b[3] \div 64), b[3] % 64>>
         \o Base64(SubSeq(b, 4, Len(b)))

\* Buffer.from(text, 'base64'): decoding stops at the first padding character.
RECURSIVE FromBase64(_)
FromBase64(t) ==
    IF Len(t) < 2 \/ t[1] = Pad \/ t[2] = Pad THEN <<>>
    ELSE IF Len(t) = 2 \/ t[3] = Pad
    THEN <<t[1] * 4 + (t[2] \div 16)>>
    ELSE IF Len(t) = 3 \/ t[4] = Pad
    THEN <<t[1] * 4 + (t[2] \div 16), (t[2] % 16) * 16 + (t[3] \div 4)>>
    ELSE <<t[1] * 4 + (t[2] \div 16), (t[2] % 16) * 16 + (t[3] \div 4),
           (t[3] % 4) * 64 + t[4]>>
         \o FromBase64(SubSeq(t, 5, Len(t)))

encodeContent(content) == Base64(Utf8Bytes(content))

decodeContent(content) == Utf8Text(FromBase64(content))

\* content.length: the number of UTF-16 code units
byteLength_units(content) == Len(content)

\* Buffer.byteLength(content, 'utf8')
byteLength(content) == Len(Utf8Bytes(content))

(***************************************************************************)
(* JavaScript values the handlers depend on                                *)
(***************************************************************************)
Undefined == "undefined"            \* a field the request does not carry
EmptyId == [t |-> -1, r |-> -1]     \* context_id missing or ''
NullInfo == [null |-> TRUE]         \* repoInfo: null
Newline == 10
HourMs == 3600000                   \* 60 * 60 * 1000

\* Names every plain object inherits from Object.prototype; a lookup
\* files[name] finds them (a function or object, truthy) although the object
\* has no such own property.
InheritedNames == {"__proto__", "toString", "constructor"}

\* The prototype {} starts with.
ObjectPrototype == [object |-> "Object.prototype"]

\* Property names that are array indices (canonical decimal numerals), with
\* the numbers they write: those a request of the model can carry.
ArrayIndex == ("0" :> 0) @@ ("1" :> 1)

\* Object.entries and Object.keys list the array indices first, in
\* ascending order, then the other names in order of creation: `key` comes
\* before a new property `path` whatever the order they were made in.
ListedBefore(key, path) ==
    /\ key \in DOMAIN ArrayIndex
    /\ path \in DOMAIN ArrayIndex => ArrayIndex[key] < ArrayIndex[path]

\* files is the object context.files: its own enumerable properties in the
\* order Object.entries lists them, each [path, content, added, size] (path
\* is the property's name).  The second part of the object is its
\* prototype, `proto`.
HasOwn(files, path) == \E i \in 1..Len(files) : files[i].path = path
OwnIndex(files, path) == CHOOSE i \in 1..Len(files) : files[i].path = path

\* a lookup of `name` that no own property answers goes to the prototype:
\* Object.prototype's names are always found (at the end of the chain), and
\* when the prototype is an entry, so are the entry's properties
InheritedTruthy(proto, name) ==
    \/ name \in InheritedNames
    \/ /\ proto # ObjectPrototype
       /\ \/ name = "content" /\ proto.content # <<>>
          \/ name = "added"
          \/ name = "size" /\ "size" \in DOMAIN proto /\ proto.size # 0

\* files[path] as a condition: if (context.files[path])
FilesGetTruthy(files, proto, path) ==
    HasOwn(files, path) \/ InheritedTruthy(proto, path)

\* files[path] = entry, the own properties afterwards.  Assigning to
\* __proto__ runs the inherited setter and no own property is created.
FilesSet(files, path, entry) ==
    IF path = "__proto__" THEN files
    ELSE IF HasOwn(files, path)
    THEN [files EXCEPT ![OwnIndex(files, path)] = entry]
    ELSE IF path \in DOMAIN ArrayIndex
    THEN SelectSeq(files, LAMBDA e : ListedBefore(e.path, path))
             \o <<entry>>
             \o SelectSeq(files, LAMBDA e : ~ListedBefore(e.path, path))
    ELSE Append(files, entry)

\* files[path] = entry, the prototype afterwards: the setter of __proto__
\* makes the entry the object's prototype.
ProtoSet(proto, path, entry) == IF path = "__proto__" THEN entry ELSE proto

\* a delete that empties the object
FilesDelete_all(files, path) == <<>>

\* delete files[path]: own properties only; the prototype stays
FilesDelete(files, path) ==
    SelectSeq(files, LAMBDA e : e.path # path)

\* Map.prototype.set
MapSet(store, id, ctx) ==
    [x \in DOMAIN store \cup {id} |-> IF x = id THEN ctx ELSE store[x]]

\* Map.prototype.delete
MapDelete(store, ids) == [x \in DOMAIN store \ ids |-> store[x]]

(***************************************************************************)
(* String helpers of the search handler                                    *)
(***************************************************************************)
\* String.prototype.toLowerCase, for the code units the model uses: ASCII and
\* Latin-1 capitals map to their small letters, U+0130 to "i" + U+0307.
LowerUnit(c) ==
    IF c >= 65 /\ c <= 90 THEN <<c + 32>>
    ELSE IF c >= 192 /\ c <= 222 /\ c # 215 THEN <<c + 32>>
    ELSE IF c = 304 THEN <<105, 775>>
    ELSE <<c>>

RECURSIVE toLowerCase(_)
toLowerCase(s) ==
    IF s = <<>> THEN <<>> ELSE LowerUnit(Head(s)) \o toLowerCase(Tail(s))

\* String.prototype.includes
includes(s, q) ==
    \E k \in 0..(Len(s) - Len(q)) : SubSeq(s, k + 1, k + Len(q)) = q

\* String.prototype.split('\n')
RECURSIVE split(_)
split(s) ==
    IF \A i \in 1..Len(s) : s[i] # Newline THEN <<s>>
    ELSE LET i == CHOOSE j \in 1..Len(s) :
                      s[j] = Newline /\ \A k \in 1..(j - 1) : s[k] # Newline IN
         <<SubSeq(s, 1, i - 1)>> \o split(SubSeq(s, i + 1, Len(s)))

PreviewLen == 100
Ellipsis == <<46, 46, 46>>
\* preview that cuts a line of exactly 100 characters too
preview_cut(line) ==
    IF Len(line) >= PreviewLen THEN SubSeq(line, 1, PreviewLen) \o Ellipsis ELSE line

preview(line) ==
    IF Len(line) > PreviewLen THEN SubSeq(line, 1, PreviewLen) \o Ellipsis ELSE line

RECURSIVE SumLen(_)
SumLen(seqs) == IF seqs = <<>> THEN 0 ELSE Len(Head(seqs)) + SumLen(Tail(seqs))

RECURSIVE SetToSeq(_)
SetToSeq(S) ==
    IF S = {} THEN <<>> ELSE LET x == CHOOSE y \in S : TRUE IN <<x>> \o SetToSeq(S \ {x})

RECURSIVE SumCounts(_)
SumCounts(results) ==
    IF results = <<>> THEN 0
    ELSE Head(results).match_count + SumCounts(Tail(results))

(***************************************************************************)
(* Context store handlers of src/unnamed/part_000.  Each is the handler as *)
(* a function of the store, the request and the clock, giving the store    *)
(* afterwards and the response sent.                                       *)
(***************************************************************************)
\* ctx_${Date.now()}_${Math.random().toString(36).slice(2, 9)}
ContextId(t, r) == [t |-> t, r |-> r]

\* The handler reads the clock twice: t is what Date.now() gives for the
\* id, d what new Date() gives for `created` right after.
init(store, t, r, d) ==
    [store |-> MapSet(store, ContextId(t, r),
                      [created |-> d, files |-> <<>>, proto |-> ObjectPrototype,
                       repoInfo |-> NullInfo]),
     res |-> [op |-> "init", status |-> 200, context_id |-> ContextId(t, r)]]

\* schemas.addFile: every string is non-empty; repo is optional; branch
\* defaults to 'main'.
addFileValid(body) ==
    /\ body.context_id # EmptyId
    /\ body.path # ""
    /\ body.content # <<>>
    /\ body.repo # ""
    /\ body.branch # ""

\* validateInput: req.body = value, the body with the schema's defaults.
addFileValue(body) ==
    [body EXCEPT !.branch = IF body.branch = Undefined THEN "main" ELSE body.branch]

NotFoundContext(op) == [op |-> op, status |-> 404, error |-> "Context not found"]

has(store, id) == id \in DOMAIN store

\* add_file as it would be if an unknown context were created on first use.
add_file_upsert(store, body0, t) ==
    IF ~addFileValid(body0)
    THEN [store |-> store,
          res |-> [op |-> "add_file", status |-> 400, error |-> "Validation error"]]
    ELSE [store |-> MapSet(store, body0.context_id,
                           [created |-> t, files |-> <<>>,
                            proto |-> ObjectPrototype, repoInfo |-> NullInfo]),
          res |-> [op |-> "add_file", status |-> 200, file_count |-> 0]]

\* add_file that sets repoInfo only while it is null (first write wins)
add_file_first_repo(store, body0, t) ==
    IF ~addFileValid(body0)
    THEN [store |-> store,
          res |-> [op |-> "add_file", status |-> 400, error |-> "Validation error"]]
    ELSE LET body == addFileValue(body0) IN
    IF ~has(store, body.context_id)
    THEN [store |-> store, res |-> NotFoundContext("add_file")]
    ELSE LET context == store[body.context_id]
             entry == [path |-> body.path,
                       content |-> encodeContent(body.content),
                       added |-> t,
                       size |-> byteLength(body.content)]
             files == FilesSet(context.files, body.path, entry)
             proto == ProtoSet(context.proto, body.path, entry)
             repoInfo == IF body.repo # Undefined /\ context.repoInfo = NullInfo
                         THEN [repo |-> body.repo, branch |-> body.branch]
                         ELSE context.repoInfo
         IN [store |-> [store EXCEPT ![body.context_id] =
                           [context EXCEPT !.files = files, !.proto = proto,
                                           !.repoInfo = repoInfo]],
             res |-> [op |-> "add_file", status |-> 200, file_count |-> Len(files)]]

add_file(store, body0, t) ==
    IF ~addFileValid(body0)
    THEN [store |-> store,
          res |-> [op |-> "add_file", status |-> 400, error |-> "Validation error"]]
    ELSE LET body == addFileValue(body0) IN
    IF ~has(store, body.context_id)
    THEN [store |-> store, res |-> NotFoundContext("add_file")]
    ELSE LET context == store[body.context_id]
             entry == [path |-> body.path,
                       content |-> encodeContent(body.content),
                       added |-> t,
                       size |-> byteLength(body.content)]
             files == FilesSet(context.files, body.path, entry)
             proto == ProtoSet(context.proto, body.path, entry)
             repoInfo == IF body.repo # Undefined
                         THEN [repo |-> body.repo,
                               branch |-> IF body.branch \in {Undefined, ""}
                                          THEN "main" ELSE body.branch]
                         ELSE context.repoInfo
         IN [store |-> [store EXCEPT ![body.context_id] =
                           [context EXCEPT !.files = files, !.proto = proto,
                                           !.repoInfo = repoInfo]],
             res |-> [op |-> "add_file", status |-> 200, file_count |-> Len(files)]]

remove_file(store, body) ==
    IF body.context_id = EmptyId \/ body.path = ""
    THEN [store |-> store,
          res |-> [op |-> "remove_file", status |-> 400,
                   error |-> "context_id and path required"]]
    ELSE IF ~has(store, body.context_id)
    THEN [store |-> store, res |-> NotFoundContext("remove_file")]
    ELSE LET context == store[body.context_id] IN
         IF FilesGetTruthy(context.files, context.proto, body.path)
         THEN [store |-> [store EXCEPT ![body.context_id].files =
                             FilesDelete(context.files, body.path)],
               res |-> [op |-> "remove_file", status |-> 200]]
         ELSE [store |-> store,
               res |-> [op |-> "remove_file", status |-> 404,
                        error |-> "File not found in context"]]

get_context(store, query) ==
    IF query.context_id = EmptyId
    THEN [store |-> store,
          res |-> [op |-> "get_context", status |-> 400,
                   error |-> "context_id required"]]
    ELSE IF ~has(store, query.context_id)
    THEN [store |-> store, res |-> NotFoundContext("get_context")]
    ELSE LET context == store[query.context_id] IN
         [store |-> store,
          res |-> [op |-> "get_context", status |-> 200,
                   context_id |-> query.context_id,
                   created |-> context.created,
                   files |-> [i \in 1..Len(context.files) |->
                                 [path |-> context.files[i].path,
                                  content |-> decodeContent(context.files[i].content),
                                  added |-> context.files[i].added,
                                  size |-> context.files[i].size]],
                   repo_info |-> context.repoInfo,
                   file_count |-> Len(context.files)]]

\* The matches of one file: lines.forEach((line, i) => ...)
fileMatches(content, query) ==
    LET lines == split(content)
        hit(i) == includes(toLowerCase(lines[i]), toLowerCase(query))
        idx == SelectSeq([i \in 1..Len(lines) |-> i], hit)
    IN [k \in 1..Len(idx) |->
           [line |-> idx[k], content |-> lines[idx[k]], preview |-> preview(lines[idx[k]])]]

RECURSIVE searchResults(_, _)
searchResults(files, query) ==
    IF files = <<>> THEN <<>>
    ELSE LET matches == fileMatches(decodeContent(Head(files).content), query)
             rest == searchResults(Tail(files), query)
         IN IF Len(matches) > 0
            THEN <<[path |-> Head(files).path, matches |-> matches,
                    match_count |-> Len(matches)]>> \o rest
            ELSE rest

search(store, body) ==
    IF body.context_id = EmptyId \/ body.query = <<>>
    THEN [store |-> store,
          res |-> [op |-> "search", status |-> 400,
                   error |-> "context_id and query required"]]
    ELSE IF ~has(store, body.context_id)
    THEN [store |-> store, res |-> NotFoundContext("search")]
    ELSE LET context == store[body.context_id]
             results == searchResults(context.files, body.query)
         IN [store |-> store,
             res |-> [op |-> "search", status |-> 200,
                      results |-> results,
                      total_matches |-> SumCounts(results),
                      files_searched |-> Len(context.files)]]


(***************************************************************************)
(* Bounds and the requests the model sends                                 *)
(***************************************************************************)
MaxContexts == 2        \* contexts in the store at one time
MaxFiles == 2           \* file entries in the whole store
MaxRand == 1            \* distinct values of the id's random suffix
MaxHours == 1           \* hours the clock of part_000's store runs
MaxLag == 1             \* milliseconds between two clock readings of one handler

Rands == 0..(MaxRand - 1)
\* what new Date() can give right after Date.now() gave `now`
Readings == {now, now + MaxLag}
Paths == {"a.txt", "1", "toString", "__proto__", "content", ""}
\* "", "a", "A\nb", and an unpaired high surrogate
Contents == {<<>>, <<97>>, <<65, 10, 98>>, <<55296>>}
\* "", "a", "B"
Queries == {<<>>, <<97>>, <<66>>}
RepoNames == {Undefined, "r1"}
BranchNames == {Undefined, "dev"}

NoResponse == [op |-> "none", status |-> 0]

\* Ids a request can carry: those in the store, those issued, ids not created
\* (yet), and the missing id.
IdInputs == DOMAIN contextStore \cup issued \cup {ContextId(now, r) : r \in Rands}
            \cup {EmptyId}

\* The add_file requests: two paths with every content, the other names
\* with one content, and the bodies schemas.addFile refuses (no id, path ''
\* or content '', repo '' or branch '').  (A branch other than the default
\* is sent to server.js's store only, and to the handler of part_000 in the
\* claims about repoInfo.)
AddFileBodies ==
    [context_id : IdInputs, path : {"a.txt", "toString"},
     content : Contents \ {<<>>}, repo : {Undefined}, branch : {Undefined}]
    \cup [context_id : IdInputs, path : {"1", "content", "__proto__", ""},
          content : {<<97>>}, repo : {Undefined}, branch : {Undefined}]
    \cup [context_id : IdInputs, path : {"a.txt"}, content : {<<>>, <<97>>},
          repo : {"", "r1"}, branch : {Undefined, ""}]
RemoveFileBodies == [context_id : IdInputs, path : Paths]
GetContextQueries == [context_id : IdInputs]
SearchBodies == [context_id : IdInputs, query : Queries]

\* the entries a context holds: its own properties and, when addFile made
\* one the prototype, that one
Held(context) ==
    IF context.proto = ObjectPrototype THEN context.files
    ELSE Append(context.files, context.proto)

WithinBounds(store) ==
    /\ Cardinality(DOMAIN store) <= MaxContexts
    /\ SumLen([i \in 1..Cardinality(DOMAIN store) |->
                  Held(store[SetToSeq(DOMAIN store)[i]])]) <= MaxFiles

(***************************************************************************)
(* The GitHub git data API as the commit builder uses it.  Objects are     *)
(* content addressed: a blob's sha stands for its bytes, a tree's sha for  *)
(* the map path -> blob it denotes.  A commit's sha is its index in        *)
(* `commits`, the table of commit objects GitHub holds.  The only          *)
(* repository of the owner is r1.                                          *)
(***************************************************************************)
Repos == {"r1"}
NoSha == 0
NoTree == <<>>
\* the files of the branch before any request: a.txt = "0", c.txt = "9"
BaseTree == ("a.txt" :> <<48>>) @@ ("c.txt" :> <<57>>)

\* createBlob with encoding 'base64': the blob holds the decoded bytes
GitCreateBlob(content64) == FromBase64(content64)

RECURSIVE Overlay(_, _)
Overlay(base, entries) ==
    IF entries = <<>> THEN base
    ELSE LET e == Head(entries)
             rest == [p \in (DOMAIN base) \ {e.path} |-> base[p]]
         IN Overlay((e.path :> e.sha) @@ rest, Tail(entries))

Reverse(s) == [i \in 1..Len(s) |-> s[Len(s) + 1 - i]]

\* createTree with base_tree: the entries laid over the base tree.  Which
\* of two entries for one path GitHub keeps is not the program's choice.
GitCreateTree(base, entries, policy) ==
    IF policy = "last" THEN Overlay(base, entries)
    ELSE Overlay(base, Reverse(entries))

RECURSIVE AncestorsOrSelf(_, _)
AncestorsOrSelf(cs, sha) ==
    IF sha \notin DOMAIN cs THEN {}
    ELSE {sha} \cup UNION {AncestorsOrSelf(cs, cs[sha].parents[i]) :
                             i \in DOMAIN cs[sha].parents}

\* updateRef as the handlers call it, `force` left out: GitHub accepts the
\* update only when it is a fast-forward of the branch
GitUpdateRefAllowed(rf, cs, branch, sha) ==
    /\ branch \in DOMAIN rf
    /\ rf[branch] \in AncestorsOrSelf(cs, sha)

(***************************************************************************)
(* The commit builder of src/unnamed/part_000: POST /v1/push_files and     *)
(* PUT /commit.  An attempt is one request being handled; each operator    *)
(* below is one handler from one await to the next.  `calls` and `args`    *)
(* are the calls the attempt has sent to GitHub, in order, and the         *)
(* arguments of each (the owner, a constant, left out).                    *)
(***************************************************************************)
NoBody == [repoName |-> "", branch |-> "", files |-> <<>>, message |-> ""]
NoBlob == [path |-> "", mode |-> "", type |-> "", sha |-> <<>>]

IdleAttempt ==
    [pc |-> "Idle", kind |-> "none", body |-> NoBody,
     latestCommitSha |-> NoSha, baseTreeSha |-> NoTree,
     blobs |-> <<>>, pending |-> {}, treeSha |-> NoTree,
     commitSha |-> NoSha, calls |-> <<>>, args |-> <<>>, applied |-> FALSE,
     res |-> NoResponse]

called(x, name) == [x EXCEPT !.calls = Append(@, name)]

\* octokit.<name>({ owner: OWNER, ...args })
sent(x, name, args) ==
    [x EXCEPT !.calls = Append(@, name), !.args = Append(@, args)]

(***************************************************************************)
(* POST /v1/push_files                                                     *)
(***************************************************************************)
\* schemas.pushFiles: every string is required, and a required Joi string
\* is not empty; `files` may be an empty array
bodyValid(body) ==
    /\ body.repoName \notin {Undefined, ""}
    /\ body.branch # ""
    /\ body.message \notin {Undefined, ""}
    /\ \A i \in DOMAIN body.files :
           body.files[i].path # "" /\ body.files[i].content # <<>>

bodyValue(body) ==
    [body EXCEPT !.branch = IF @ = Undefined THEN "main" ELSE @]

\* validateInput, then the handler up to its first await
receive(body0) ==
    IF ~bodyValid(body0)
    THEN [IdleAttempt EXCEPT !.pc = "Rejected", !.kind = "push_files",
              !.res = [op |-> "push_files", status |-> 400,
                       error |-> "Validation error"]]
    ELSE [IdleAttempt EXCEPT !.pc = "CheckRepo", !.kind = "push_files",
              !.body = bodyValue(body0)]

\* a catch block that starts the sequence again from the head
failed_retry(x, message) == [x EXCEPT !.pc = "GetRef"]

\* a catch block that sends nothing
failed_silent(x, message) == [x EXCEPT !.pc = "Aborted"]

\* the catch block
failed(x, message) ==
    [x EXCEPT !.pc = "Aborted",
              !.res = [op |-> "push_files", status |-> 500,
                       error |-> "Failed to push files",
                       details |-> message]]

checkRepoExists(x0, outcome) ==
    LET x == sent(x0, "repos.get", [repo |-> x0.body.repoName]) IN
    IF outcome = "error" THEN failed(x, "Upstream error")
    ELSE IF x.body.repoName \notin Repos
    THEN [x EXCEPT !.pc = "Aborted",
              !.res = [op |-> "push_files", status |-> 404,
                       error |-> "Repository " \o x.body.repoName
                                     \o " not found"]]
    ELSE [x EXCEPT !.pc = "GetRef"]

getRef(x0, rf, outcome) ==
    LET x == sent(x0, "git.getRef",
                  [repo |-> x0.body.repoName, ref |-> "heads/" \o x0.body.branch])
    IN
    IF outcome = "error" THEN failed(x, "Upstream error")
    ELSE IF x.body.branch \notin DOMAIN rf THEN failed(x, "Not Found")
    ELSE [x EXCEPT !.pc = "GetCommit", !.latestCommitSha = rf[x.body.branch]]

\* the handler going from the head's tree straight to createTree
getCommit_skips(x0, cs, outcome) ==
    LET x == sent(x0, "git.getCommit",
                  [repo |-> x0.body.repoName, commit_sha |-> x0.latestCommitSha])
    IN
    IF outcome = "error" THEN failed(x, "Upstream error")
    ELSE [x EXCEPT !.pc = "CreateTree",
              !.baseTreeSha = cs[x.latestCommitSha].tree]

getCommit(x0, cs, outcome) ==
    LET x == sent(x0, "git.getCommit",
                  [repo |-> x0.body.repoName, commit_sha |-> x0.latestCommitSha])
    IN
    IF outcome = "error" THEN failed(x, "Upstream error")
    ELSE [x EXCEPT !.pc = "CreateBlobs",
              !.baseTreeSha = cs[x.latestCommitSha].tree]

\* the tree entry a file becomes once its blob exists
blobOf_empty(file) ==
    [path |-> file.path, mode |-> "100644", type |-> "blob", sha |-> <<>>]

blobOf(file) ==
    [path |-> file.path, mode |-> "100644", type |-> "blob",
     sha |-> GitCreateBlob(encodeContent(file.content))]

RECURSIVE Repeat(_, _)
Repeat(v, n) == IF n = 0 THEN <<>> ELSE <<v>> \o Repeat(v, n - 1)

\* files.map(...) issues every createBlob at once; Promise.all of no
\* promises is already fulfilled
createBlobs(x) ==
    LET n == Len(x.body.files) IN
    [x EXCEPT !.calls = @ \o Repeat("git.createBlob", n),
              !.args = @ \o [i \in 1..n |->
                                [repo |-> x.body.repoName,
                                 content |-> encodeContent(x.body.files[i].content),
                                 encoding |-> "base64"]],
              !.blobs = Repeat(NoBlob, n),
              !.pending = 1..n,
              !.pc = IF n = 0 THEN "CreateTree" ELSE "BlobsPending"]

\* results collected in the order the calls complete
blobSettled_arrival(x, i, outcome) ==
    LET left == x.pending \ {i}
        k == CHOOSE n \in DOMAIN x.blobs :
                 x.blobs[n] = NoBlob /\ \A m \in 1..(n - 1) : x.blobs[m] # NoBlob
    IN
    IF x.pc # "BlobsPending" THEN [x EXCEPT !.pending = left]
    ELSE IF outcome = "error"
    THEN [failed(x, "Upstream error") EXCEPT !.pending = left]
    ELSE [x EXCEPT !.pending = left,
              !.blobs[k] = blobOf(x.body.files[i]),
              !.pc = IF left = {} THEN "CreateTree" ELSE "BlobsPending"]

\* Promise.allSettled: a failed createBlob is waited out with the others
\* and the handler goes on
blobSettled_all_settled(x, i, outcome) ==
    LET left == x.pending \ {i} IN
    IF x.pc # "BlobsPending" THEN [x EXCEPT !.pending = left]
    ELSE [x EXCEPT !.pending = left,
              !.blobs[i] = IF outcome = "error" THEN NoBlob
                           ELSE blobOf(x.body.files[i]),
              !.pc = IF left = {} THEN "CreateTree" ELSE "BlobsPending"]

\* one createBlob settles.  Promise.all rejects on the first failure; the
\* other calls stay in flight and their results are dropped.
blobSettled(x, i, outcome) ==
    LET left == x.pending \ {i} IN
    IF x.pc # "BlobsPending" THEN [x EXCEPT !.pending = left]
    ELSE IF outcome = "error"
    THEN [failed(x, "Upstream error") EXCEPT !.pending = left]
    ELSE [x EXCEPT !.pending = left,
              !.blobs[i] = blobOf(x.body.files[i]),
              !.pc = IF left = {} THEN "CreateTree" ELSE "BlobsPending"]

newTree_nobase(x, policy) == GitCreateTree(NoTree, x.blobs, policy)

newTree(x, policy) == GitCreateTree(x.baseTreeSha, x.blobs, policy)

createTree(x0, outcome, policy) ==
    LET x == sent(x0, "git.createTree",
                  [repo |-> x0.body.repoName, base_tree |-> x0.baseTreeSha,
                   tree |-> x0.blobs])
    IN
    IF outcome = "error" THEN failed(x, "Upstream error")
    ELSE [x EXCEPT !.pc = "CreateCommit", !.treeSha = newTree(x, policy)]

\* createCommit: a commit's sha is the hash of its tree, parents, message,
\* author and date to the second, so the same commit made again within the
\* second is the same object; made in another second it is a new one.
GitCreateCommit(cs, obj, sameSecond) ==
    LET same == {i \in DOMAIN cs : cs[i] = obj} IN
    IF sameSecond /\ same # {}
    THEN [sha |-> CHOOSE i \in same : \A j \in same : j <= i, commits |-> cs]
    ELSE [sha |-> Len(cs) + 1, commits |-> Append(cs, obj)]

\* a commit made without `parents`
commitObject_noparent(x) ==
    [message |-> x.body.message, tree |-> x.treeSha, parents |-> <<>>]

commitObject(x) ==
    [message |-> x.body.message, tree |-> x.treeSha,
     parents |-> <<x.latestCommitSha>>]

\* a failed call goes on to the next step instead of the catch block
createCommit_goes_on(x0, cs, outcome, sameSecond) ==
    LET x == sent(x0, "git.createCommit",
                  [repo |-> x0.body.repoName, commit |-> commitObject(x0)])
        made == GitCreateCommit(cs, commitObject(x), sameSecond)
    IN
    IF outcome = "error"
    THEN [att |-> [x EXCEPT !.pc = "UpdateRef"], commits |-> cs]
    ELSE [att |-> [x EXCEPT !.pc = "UpdateRef", !.commitSha = made.sha],
          commits |-> made.commits]

createCommit(x0, cs, outcome, sameSecond) ==
    LET x == sent(x0, "git.createCommit",
                  [repo |-> x0.body.repoName, commit |-> commitObject(x0)])
        made == GitCreateCommit(cs, commitObject(x), sameSecond)
    IN
    IF outcome = "error"
    THEN [att |-> failed(x, "Upstream error"), commits |-> cs]
    ELSE [att |-> [x EXCEPT !.pc = "UpdateRef", !.commitSha = made.sha],
          commits |-> made.commits]

\* the response of a request that went through
succeeded(x) ==
    [op |-> "push_files", status |-> 200, success |-> TRUE,
     commit |-> [sha |-> x.commitSha, message |-> x.body.message],
     files |-> [i \in DOMAIN x.blobs |->
                   [path |-> x.blobs[i].path, sha |-> x.blobs[i].sha]],
     branch |-> x.body.branch]

\* outcome "ok": GitHub answers; "lost": GitHub acts, the answer never
\* arrives; "error": the call fails before GitHub acts
updateRef(x0, rf, cs, outcome) ==
    LET x == sent(x0, "git.updateRef",
                  [repo |-> x0.body.repoName, ref |-> "heads/" \o x0.body.branch,
                   sha |-> x0.commitSha])
        branch == x.body.branch
    IN
    IF outcome = "error"
    THEN [att |-> failed(x, "Upstream error"), refs |-> rf]
    ELSE IF ~GitUpdateRefAllowed(rf, cs, branch, x.commitSha)
    THEN [att |-> failed(x, IF outcome = "ok"
                            THEN "Update is not a fast forward"
                            ELSE "Upstream error"),
          refs |-> rf]
    ELSE [att |-> IF outcome = "ok"
                  THEN [x EXCEPT !.pc = "Committed", !.applied = TRUE,
                            !.res = succeeded([x EXCEPT !.applied = TRUE])]
                  ELSE [failed(x, "Upstream error") EXCEPT !.applied = TRUE],
          refs |-> [rf EXCEPT ![branch] = x.commitSha]]

(***************************************************************************)
(* PUT /commit: one path and one content.  The attempt has the fields of   *)
(* a push_files attempt; `blobs` is the one-entry array the handler gives  *)
(* to createTree.                                                          *)
(***************************************************************************)
NoCommitBody ==
    [repoName |-> "", branch |-> "", path |-> "", content |-> <<>>,
     message |-> ""]

\* schemas.commit
commitValid(body) ==
    /\ body.repoName \notin {Undefined, ""}
    /\ body.branch # ""
    /\ body.path \notin {Undefined, ""}
    /\ body.content # <<>>
    /\ body.message \notin {Undefined, ""}

\* validateInput, then the handler up to its first await
commitReceive(body0) ==
    IF ~commitValid(body0)
    THEN [IdleAttempt EXCEPT !.pc = "Rejected", !.kind = "commit",
              !.body = NoCommitBody,
              !.res = [op |-> "commit", status |-> 400,
                       error |-> "Validation error"]]
    ELSE [IdleAttempt EXCEPT !.pc = "CheckRepo", !.kind = "commit",
              !.body = [body0 EXCEPT !.branch = IF @ = Undefined
                                                THEN "main" ELSE @]]

\* the catch block
commitFailed(x, message) ==
    [x EXCEPT !.pc = "Aborted",
              !.res = [op |-> "commit", status |-> 500,
                       error |-> "Failed to commit file",
                       details |-> message]]

\* PUT /commit going to the branch without asking for the repository
commitCheckRepo_unchecked(x0, outcome) == [x0 EXCEPT !.pc = "GetRef"]

\* if (!await checkRepoExists(repoName)) return res.status(404)...
commitCheckRepo(x0, outcome) ==
    LET x == sent(x0, "repos.get", [repo |-> x0.body.repoName]) IN
    IF outcome = "error" THEN commitFailed(x, "Upstream error")
    ELSE IF x.body.repoName \notin Repos
    THEN [x EXCEPT !.pc = "Aborted",
              !.res = [op |-> "commit", status |-> 404,
                       error |-> "Repository not found"]]
    ELSE [x EXCEPT !.pc = "GetRef"]

commitGetRef(x0, rf, outcome) ==
    LET x == sent(x0, "git.getRef",
                  [repo |-> x0.body.repoName, ref |-> "heads/" \o x0.body.branch])
    IN
    IF outcome = "error" THEN commitFailed(x, "Upstream error")
    ELSE IF x.body.branch \notin DOMAIN rf THEN commitFailed(x, "Not Found")
    ELSE [x EXCEPT !.pc = "GetCommit", !.latestCommitSha = rf[x.body.branch]]

commitGetCommit(x0, cs, outcome) ==
    LET x == sent(x0, "git.getCommit",
                  [repo |-> x0.body.repoName, commit_sha |-> x0.latestCommitSha])
    IN
    IF outcome = "error" THEN commitFailed(x, "Upstream error")
    ELSE [x EXCEPT !.pc = "CreateBlobs",
              !.baseTreeSha = cs[x.latestCommitSha].tree]

\* await octokit.git.createBlob(...): the call goes out
commitCreateBlob(x0) ==
    LET x == sent(x0, "git.createBlob",
                  [repo |-> x0.body.repoName,
                   content |-> encodeContent(x0.body.content),
                   encoding |-> "base64"])
    IN [x EXCEPT !.blobs = <<NoBlob>>, !.pending = {1}, !.pc = "BlobsPending"]

\* ... and returns: blob.data.sha goes into the entry for createTree
commitBlobSettled(x, outcome) ==
    IF outcome = "error"
    THEN [commitFailed(x, "Upstream error") EXCEPT !.pending = {}]
    ELSE [x EXCEPT !.pending = {},
              !.blobs = <<[path |-> x.body.path, mode |-> "100644",
                           type |-> "blob",
                           sha |-> GitCreateBlob(encodeContent(x.body.content))]>>,
              !.pc = "CreateTree"]

commitCreateTree(x0, outcome, policy) ==
    LET x == sent(x0, "git.createTree",
                  [repo |-> x0.body.repoName, base_tree |-> x0.baseTreeSha,
                   tree |-> x0.blobs])
    IN
    IF outcome = "error" THEN commitFailed(x, "Upstream error")
    ELSE [x EXCEPT !.pc = "CreateCommit",
              !.treeSha = GitCreateTree(x.baseTreeSha, x.blobs, policy)]

commitCreateCommit(x0, cs, outcome, sameSecond) ==
    LET obj == [message |-> x0.body.message, tree |-> x0.treeSha,
                parents |-> <<x0.latestCommitSha>>]
        x == sent(x0, "git.createCommit",
                  [repo |-> x0.body.repoName, commit |-> obj])
        made == GitCreateCommit(cs, obj, sameSecond)
    IN
    IF outcome = "error"
    THEN [att |-> commitFailed(x, "Upstream error"), commits |-> cs]
    ELSE [att |-> [x EXCEPT !.pc = "UpdateRef", !.commitSha = made.sha],
          commits |-> made.commits]

commitUpdateRef(x0, rf, cs, outcome) ==
    LET x == sent(x0, "git.updateRef",
                  [repo |-> x0.body.repoName, ref |-> "heads/" \o x0.body.branch,
                   sha |-> x0.commitSha])
        branch == x.body.branch
        answer == [op |-> "commit", status |-> 200, success |-> TRUE,
                   commit_sha |-> x.commitSha, message |-> x.body.message]
    IN
    IF outcome = "error"
    THEN [att |-> commitFailed(x, "Upstream error"), refs |-> rf]
    ELSE IF ~GitUpdateRefAllowed(rf, cs, branch, x.commitSha)
    THEN [att |-> commitFailed(x, IF outcome = "ok"
                                  THEN "Update is not a fast forward"
                                  ELSE "Upstream error"),
          refs |-> rf]
    ELSE [att |-> IF outcome = "ok"
                  THEN [x EXCEPT !.pc = "Committed", !.applied = TRUE,
                            !.res = answer]
                  ELSE [commitFailed(x, "Upstream error") EXCEPT !.applied = TRUE],
          refs |-> [rf EXCEPT ![branch] = x.commitSha]]

\* reading a file of a branch back, as POST /v1/github_files does: GitHub
\* sends the blob in base64 and the handler decodes it
readFile(rf, cs, branch, path) ==
    decodeContent(Base64(cs[rf[branch]].tree[path]))

(***************************************************************************)
(* The other endpoints that write to the repository: POST /branch and      *)
(* POST /pullrequest/merge of both servers, PUT /commit of src/server.js.  *)
(* A request is a record; each operator is the handler from one await to   *)
(* the next.                                                               *)
(***************************************************************************)
Servers == {"part_000", "server.js"}

IdleRequest(server) ==
    [pc |-> "Idle", server |-> server, op |-> "none",
     body |-> [repoName |-> ""], sha |-> NoSha,
     calls |-> <<>>, res |-> NoResponse]

\* res.status(status).json({ error }) and, in part_000, { error, details }
refused(x, status, error) ==
    [x EXCEPT !.pc = "Done",
              !.res = [op |-> x.op, status |-> status, error |-> error]]

refusedWith(x, status, error, details) ==
    [x EXCEPT !.pc = "Done",
              !.res = [op |-> x.op, status |-> status, error |-> error,
                       details |-> details]]

\* a file of a tree, or nothing: <<bytes>> or <<>>
FileAt(tree, path) == IF path \in DOMAIN tree THEN <<tree[path]>> ELSE <<>>

\* git.createRef: GitHub answers 422 when the reference exists already or
\* its name is empty
GitCreateRefAllowed(rf, cs, name, sha) ==
    name # "" /\ name \notin DOMAIN rf /\ sha \in DOMAIN cs

\* repos.createOrUpdateFileContents: the `sha` sent must be the blob the
\* branch holds at the path now (none sent when the path holds no file),
\* else GitHub answers 409 or 422
GitPutFileAllowed(rf, cs, branch, path, sha) ==
    /\ branch \in DOMAIN rf
    /\ sha = FileAt(cs[rf[branch]].tree, path)

\* the commit GitHub makes for it: the head's tree with the one file
\* replaced, the head as its only parent
GitPutFileCommit(rf, cs, branch, path, bytes, message) ==
    LET head == rf[branch]
        tree == cs[head].tree
    IN [message |-> message,
        tree |-> (path :> bytes) @@ [p \in (DOMAIN tree) \ {path} |-> tree[p]],
        parents |-> <<head>>]

\* the pull requests of the repository, by number: head into base
Pulls ==
    (1 :> [head |-> "dev", base |-> "main"])
        @@ (2 :> [head |-> "main", base |-> "dev"])

\* the latest commit both histories hold
MergeBase(cs, a, b) ==
    LET common == AncestorsOrSelf(cs, a) \cap AncestorsOrSelf(cs, b) IN
    CHOOSE c \in common : \A d \in common : d <= c

\* three-way merge of one path: a side that left the file alone takes the
\* other side's file
MergedFile(o, a, b) == IF a = o THEN b ELSE a
Conflicts(o, a, b) == a # b /\ a # o /\ b # o

MergedTree(o, a, b) ==
    LET paths == DOMAIN o \cup DOMAIN a \cup DOMAIN b
        m(p) == MergedFile(FileAt(o, p), FileAt(a, p), FileAt(b, p))
    IN [p \in {q \in paths : m(q) # <<>>} |-> m(p)[1]]

\* pulls.merge: the pull request is open (its branches exist and the head
\* has commits the base lacks) and the two merge without conflict; else
\* GitHub answers 404, 405 or 409
GitMergeAllowed(rf, cs, n) ==
    /\ n \in DOMAIN Pulls
    /\ Pulls[n].head \in DOMAIN rf
    /\ Pulls[n].base \in DOMAIN rf
    /\ LET h == rf[Pulls[n].head]
           b == rf[Pulls[n].base]
           o == cs[MergeBase(cs, h, b)].tree
       IN /\ h \notin AncestorsOrSelf(cs, b)
          /\ \A p \in DOMAIN o \cup DOMAIN cs[h].tree \cup DOMAIN cs[b].tree :
                 ~Conflicts(FileAt(o, p), FileAt(cs[b].tree, p),
                            FileAt(cs[h].tree, p))

\* merge_method 'merge': a commit on the base branch with the two heads as
\* its parents
GitMergeCommit(rf, cs, n, title) ==
    LET h == rf[Pulls[n].head]
        b == rf[Pulls[n].base]
    IN [message |-> title,
        tree |-> MergedTree(cs[MergeBase(cs, h, b)].tree, cs[b].tree,
                            cs[h].tree),
        parents |-> <<b, h>>]

\* -- POST /branch -------------------------------------------------------
\* part_000 validates first (schemas.createBranch: repoName and
\* newBranchName required, fromBranch 'main' when left out, no string
\* empty); server.js only defaults fromBranch
receiveCreate(x0, body0) ==
    LET body == [body0 EXCEPT !.fromBranch = IF @ = Undefined THEN "main" ELSE @]
        x == [x0 EXCEPT !.op = "create_branch", !.body = body]
    IN IF x.server = "server.js" THEN [x EXCEPT !.pc = "GetRef"]
       ELSE IF body.repoName \in {Undefined, ""}
                \/ body.newBranchName \in {Undefined, ""}
                \/ body.fromBranch = ""
       THEN refused(x, 400, "Validation error")
       ELSE [x EXCEPT !.pc = "CheckRepo"]

checkRepoCreate(x0, outcome) ==
    LET x == called(x0, "repos.get") IN
    IF outcome = "error"
    THEN refusedWith(x, 500, "Failed to create branch", "Upstream error")
    ELSE IF x.body.repoName \notin Repos
    THEN refused(x, 404, "Repository not found")
    ELSE [x EXCEPT !.pc = "GetRef"]

\* the catch block of POST /branch
createFailed(x, status, message) ==
    IF x.server = "server.js" THEN refused(x, 500, message)
    ELSE IF status = 422
    THEN refused(x, 422, "Branch " \o x.body.newBranchName \o " already exists")
    ELSE refusedWith(x, 500, "Failed to create branch", message)

getRefCreate(x0, rf, outcome) ==
    LET x == called(x0, "git.getRef") IN
    IF outcome = "error" THEN createFailed(x, 500, "Upstream error")
    ELSE IF x.body.repoName \notin Repos \/ x.body.fromBranch \notin DOMAIN rf
    THEN createFailed(x, 404, "Not Found")
    ELSE [x EXCEPT !.pc = "CreateRef", !.sha = rf[x.body.fromBranch]]

createRef(x0, rf, cs, outcome) ==
    LET x == called(x0, "git.createRef")
        name == x.body.newBranchName
    IN
    IF outcome = "error"
    THEN [att |-> createFailed(x, 500, "Upstream error"), refs |-> rf]
    ELSE IF ~GitCreateRefAllowed(rf, cs, name, x.sha)
    THEN [att |-> createFailed(x, 422, "Reference already exists"), refs |-> rf]
    ELSE [att |-> [x EXCEPT !.pc = "Done",
                       !.res = IF x.server = "part_000"
                               THEN [op |-> x.op, status |-> 200,
                                     success |-> TRUE,
                                     message |-> "Branch " \o name
                                         \o " created from " \o x.body.fromBranch]
                               ELSE [op |-> x.op, status |-> 200,
                                     ref |-> "refs/heads/" \o name,
                                     object |-> [sha |-> x.sha]]],
          refs |-> (name :> x.sha) @@ rf]

\* -- POST /pullrequest/merge --------------------------------------------
NoNumber == -1                      \* pullNumber: the body has none
\* schemas.mergePR: repoName and pullNumber required, commitTitle not
\* empty when there is one, commitMessage '' when left out
receiveMerge(x0, body0) ==
    LET x == [x0 EXCEPT !.op = "merge", !.body = body0] IN
    IF x.server = "server.js" THEN [x EXCEPT !.pc = "Merge"]
    ELSE IF body0.repoName \in {Undefined, ""} \/ body0.pullNumber = NoNumber
                \/ body0.commitTitle = ""
    THEN refused(x, 400, "Validation error")
    ELSE [x EXCEPT !.pc = "CheckRepo"]

mergeFailed(x, message) ==
    IF x.server = "server.js" THEN refused(x, 500, message)
    ELSE refusedWith(x, 500, "Failed to merge pull request", message)

checkRepoMerge(x0, outcome) ==
    LET x == called(x0, "repos.get") IN
    IF outcome = "error" THEN mergeFailed(x, "Upstream error")
    ELSE IF x.body.repoName \notin Repos
    THEN refused(x, 404, "Repository not found")
    ELSE [x EXCEPT !.pc = "Merge"]

\* commit_title: server.js sends `Merge PR #n` when the body has none;
\* part_000 sends none and GitHub writes its own
\* `${pullNumber}`: a number as the template string writes it, and
\* "undefined" when the body has none
numberText(n) == IF n = NoNumber THEN Undefined ELSE ToString(n)

mergeTitle(x) ==
    IF x.body.commitTitle \notin {Undefined, ""} THEN x.body.commitTitle
    ELSE IF x.server = "server.js"
    THEN "Merge PR #" \o numberText(x.body.pullNumber)
    ELSE "Merge pull request #" \o numberText(x.body.pullNumber)
             \o (IF x.body.pullNumber \in DOMAIN Pulls
                 THEN " from " \o Pulls[x.body.pullNumber].head ELSE "")

pullsMerge(x0, rf, cs, outcome, sameSecond) ==
    LET x == called(x0, "pulls.merge")
        n == x.body.pullNumber
        made == GitCreateCommit(cs, GitMergeCommit(rf, cs, n, mergeTitle(x)),
                                sameSecond)
        data == [sha |-> made.sha, merged |-> TRUE]
    IN
    IF outcome = "error"
    THEN [att |-> mergeFailed(x, "Upstream error"), refs |-> rf, commits |-> cs]
    ELSE IF x.body.repoName \notin Repos \/ n \notin DOMAIN Pulls
    THEN [att |-> mergeFailed(x, "Not Found"), refs |-> rf, commits |-> cs]
    ELSE IF ~GitMergeAllowed(rf, cs, n)
    THEN [att |-> mergeFailed(x, "Pull Request is not mergeable"),
          refs |-> rf, commits |-> cs]
    ELSE [att |-> [x EXCEPT !.pc = "Done",
                       !.res = IF x.server = "part_000"
                               THEN [op |-> x.op, status |-> 200,
                                     success |-> TRUE,
                                     merge |-> [status |-> 200, data |-> data]]
                               ELSE [op |-> x.op, status |-> 200] @@ data],
          refs |-> [rf EXCEPT ![Pulls[n].base] = made.sha],
          commits |-> made.commits]

\* -- PUT /commit of server.js -------------------------------------------
\* no validation; branch = 'main' when the body has none
srv_receiveCommit(x0, body0) ==
    [x0 EXCEPT !.op = "srv_commit", !.pc = "GetContent",
               !.body = [body0 EXCEPT !.branch = IF @ = Undefined THEN "main"
                                                 ELSE @]]

\* the inner try: the file's sha, or undefined when getContent fails for
\* whatever reason
srv_getContent(x0, rf, cs, outcome) ==
    LET x == called(x0, "repos.getContent")
        found == /\ outcome = "ok"
                 /\ x.body.repoName \in Repos
                 /\ x.body.branch \in DOMAIN rf
    IN [x EXCEPT !.pc = "PutContents",
                 !.sha = IF found
                         THEN FileAt(cs[rf[x.body.branch]].tree, x.body.path)
                         ELSE <<>>]

\* Buffer.from(content).toString('base64'), which GitHub decodes again
srv_fileBytes(content) == FromBase64(Base64(Utf8Bytes(content)))

srv_putContents(x0, rf, cs, outcome, sameSecond) ==
    LET x == called(x0, "repos.createOrUpdateFileContents")
        b == x.body
        bytes == srv_fileBytes(b.content)
        made == GitCreateCommit(
                    cs, GitPutFileCommit(rf, cs, b.branch, b.path, bytes,
                                         b.message), sameSecond)
    IN
    IF outcome = "error"
    THEN [att |-> refused(x, 500, "Upstream error"), refs |-> rf, commits |-> cs]
    ELSE IF b.repoName \notin Repos
    THEN [att |-> refused(x, 500, "Not Found"), refs |-> rf, commits |-> cs]
    ELSE IF b.branch \notin DOMAIN rf
    THEN [att |-> refused(x, 500, "Branch " \o b.branch \o " not found"),
          refs |-> rf, commits |-> cs]
    ELSE IF ~GitPutFileAllowed(rf, cs, b.branch, b.path, x.sha)
    THEN [att |-> refused(x, 500, IF x.sha = <<>>
                                  THEN "Invalid request. \"sha\" wasn't supplied."
                                  ELSE b.path \o " does not match"),
          refs |-> rf, commits |-> cs]
    ELSE [att |-> [x EXCEPT !.pc = "Done",
                       !.res = [op |-> x.op, status |-> 200,
                                content |-> [path |-> b.path, sha |-> bytes],
                                commit |-> [sha |-> made.sha,
                                            message |-> b.message]]],
          refs |-> [rf EXCEPT ![b.branch] = made.sha],
          commits |-> made.commits]

(***************************************************************************)
(* The commit builder as a state machine                                   *)
(***************************************************************************)
MaxAttempts == 2
Attempts == 1..MaxAttempts
Outcomes == {"ok", "error"}
RefOutcomes == {"ok", "error", "lost"}
Policies == {"first", "last"}

File(p, c) == [path |-> p, content |-> c]
\* "1", "2", an unpaired high surrogate, ""
FileLists ==
    { <<>>,
      <<File("a.txt", <<49>>)>>,
      <<File("a.txt", <<49>>), File("b.txt", <<50>>)>>,
      <<File("a.txt", <<49>>), File("a.txt", <<50>>)>>,
      <<File("b.txt", <<55296>>)>>,
      <<File("a.txt", <<>>)>> }
SingleFiles ==
    { File("a.txt", <<50>>), File("b.txt", <<55296>>), File("b.txt", <<>>) }

Body(r, b, f, m) == [repoName |-> r, branch |-> b, files |-> f, message |-> m]
Elsewhere(f) ==
    { Body("r1", Undefined, f, "m"), Body("r1", "gone", f, "m"),
      Body("ghost", "main", f, "m"), Body("r1", "main", f, "") }
PushFilesBodies ==
    { Body("r1", "main", f, "m") : f \in FileLists }
        \cup Elsewhere(<<File("b.txt", <<50>>)>>)
\* the files a request asks to commit: the list of a push_files, the one
\* path and content of a PUT /commit
RequestFiles(x) ==
    IF x.kind = "commit" THEN <<File(x.body.path, x.body.content)>>
    ELSE x.body.files

\* PUT /commit carries one path and one content
CommitBody(r, b, f, m) ==
    [repoName |-> r, branch |-> b, path |-> f.path, content |-> f.content,
     message |-> m]
CommitBodies ==
    { CommitBody("r1", "main", f, "m") : f \in SingleFiles }
        \cup { CommitBody(b.repoName, b.branch, b.files[1], b.message) :
                   b \in Elsewhere(<<File("a.txt", <<50>>)>>) }

CommitInit ==
    /\ refs = [b \in {"main"} |-> 1]
    /\ commits = <<[message |-> "first", tree |-> BaseTree, parents |-> <<>>]>>
    /\ att = [a \in Attempts |-> IdleAttempt]

(***************************************************************************)
(* The context store of part_000 as a state machine                        *)
(***************************************************************************)
Init ==
    /\ contextStore = <<>>
    /\ now = 0
    /\ res = NoResponse
    /\ issued = {}
    /\ sweepDue = 0
    /\ CommitInit

Handle(out) ==
    /\ WithinBounds(out.store)
    /\ contextStore' = out.store
    /\ res' = out.res

V1Init ==
    \E r \in Rands, d \in Readings :
        /\ Handle(init(contextStore, now, r, d))
        /\ issued' = issued \cup {ContextId(now, r)}
        /\ UNCHANGED <<now, sweepDue, refs, commits, att>>

V1AddFile ==
    \E body \in AddFileBodies :
        /\ Handle(add_file(contextStore, body, now))
        /\ UNCHANGED <<now, issued, sweepDue, refs, commits, att>>

V1RemoveFile ==
    \E body \in RemoveFileBodies :
        /\ Handle(remove_file(contextStore, body))
        /\ UNCHANGED <<now, issued, sweepDue, refs, commits, att>>

V1GetContext ==
    \E query \in GetContextQueries :
        /\ Handle(get_context(contextStore, query))
        /\ UNCHANGED <<now, issued, sweepDue, refs, commits, att>>

V1Search ==
    \E body \in SearchBodies :
        /\ Handle(search(contextStore, body))
        /\ UNCHANGED <<now, issued, sweepDue, refs, commits, att>>

\* Time passes between requests.
Tick ==
    /\ now < MaxHours * HourMs
    /\ now' = now + HourMs
    /\ res' = NoResponse
    /\ UNCHANGED <<contextStore, issued, sweepDue, refs, commits, att>>

Next == V1Init \/ V1AddFile \/ V1RemoveFile \/ V1GetContext \/ V1Search \/ Tick

Spec == Init /\ [][Next]_vars

(***************************************************************************)
(* Context store handlers of src/server.js: no validation, content kept as *)
(* sent, entries are [path, content, added].                               *)
(***************************************************************************)
srv_init(store, t, r, d) ==
    [store |-> MapSet(store, ContextId(t, r),
                      [created |-> d, files |-> <<>>, proto |-> ObjectPrototype,
                       repoInfo |-> NullInfo]),
     res |-> [op |-> "init", status |-> 200, context_id |-> ContextId(t, r)]]

\* add_file that makes the context when the id is not in the store
srv_add_file_upsert(store, body, t) ==
    LET entry == [path |-> body.path, content |-> body.content, added |-> t]
        files == IF has(store, body.context_id)
                 THEN store[body.context_id].files ELSE <<>>
        proto == IF has(store, body.context_id)
                 THEN store[body.context_id].proto ELSE ObjectPrototype
    IN [store |-> MapSet(store, body.context_id,
                         [created |-> t,
                          files |-> FilesSet(files, body.path, entry),
                          proto |-> ProtoSet(proto, body.path, entry),
                          repoInfo |-> NullInfo]),
        res |-> [op |-> "add_file", status |-> 200]]

\* add_file that takes the request as the context's new beginning
srv_add_file_touch(store, body, t) ==
    IF ~has(store, body.context_id)
    THEN [store |-> store, res |-> NotFoundContext("add_file")]
    ELSE LET context == store[body.context_id]
             entry == [path |-> body.path, content |-> body.content, added |-> t]
         IN [store |-> [store EXCEPT ![body.context_id] =
                           [context EXCEPT !.created = t,
                                           !.files = FilesSet(context.files,
                                                              body.path, entry),
                                           !.proto = ProtoSet(context.proto,
                                                              body.path, entry)]],
             res |-> [op |-> "add_file", status |-> 200]]

srv_add_file(store, body, t) ==
    IF ~has(store, body.context_id)
    THEN [store |-> store, res |-> NotFoundContext("add_file")]
    ELSE LET context == store[body.context_id]
             entry == [path |-> body.path, content |-> body.content, added |-> t]
             files == FilesSet(context.files, body.path, entry)
             proto == ProtoSet(context.proto, body.path, entry)
             repoInfo == IF body.repo \notin {Undefined, ""}
                         THEN [repo |-> body.repo,
                               branch |-> IF body.branch \in {Undefined, ""}
                                          THEN "main" ELSE body.branch]
                         ELSE context.repoInfo
         IN [store |-> [store EXCEPT ![body.context_id] =
                           [context EXCEPT !.files = files, !.proto = proto,
                                           !.repoInfo = repoInfo]],
             res |-> [op |-> "add_file", status |-> 200]]

srv_remove_file(store, body) ==
    IF ~has(store, body.context_id)
    THEN [store |-> store, res |-> NotFoundContext("remove_file")]
    ELSE LET context == store[body.context_id] IN
         [store |-> IF FilesGetTruthy(context.files, context.proto, body.path)
                    THEN [store EXCEPT ![body.context_id].files =
                             FilesDelete(context.files, body.path)]
                    ELSE store,
          res |-> [op |-> "remove_file", status |-> 200]]

srv_get_context(store, query) ==
    IF ~has(store, query.context_id)
    THEN [store |-> store, res |-> NotFoundContext("get_context")]
    ELSE LET context == store[query.context_id] IN
         [store |-> store,
          res |-> [op |-> "get_context", status |-> 200,
                   files |-> [i \in 1..Len(context.files) |->
                                 [path |-> context.files[i].path,
                                  content |-> context.files[i].content]],
                   repo_info |-> context.repoInfo]]

\* content.split('\n').map(...).filter(item => item.content.includes(query))
srv_fileMatches(content, query) ==
    LET lines == split(content)
        hit(i) == includes(lines[i], query)
        idx == SelectSeq([i \in 1..Len(lines) |-> i], hit)
    IN [k \in 1..Len(idx) |-> [line |-> idx[k], content |-> lines[idx[k]]]]

RECURSIVE srv_searchResults(_, _)
srv_searchResults(files, query) ==
    IF files = <<>> THEN <<>>
    ELSE LET rest == srv_searchResults(Tail(files), query) IN
         IF includes(Head(files).content, query)
         THEN <<[path |-> Head(files).path,
                 matches |-> srv_fileMatches(Head(files).content, query)]>> \o rest
         ELSE rest

srv_search(store, body) ==
    IF ~has(store, body.context_id)
    THEN [store |-> store, res |-> NotFoundContext("search")]
    ELSE [store |-> store,
          res |-> [op |-> "search", status |-> 200,
                   results |-> srv_searchResults(store[body.context_id].files,
                                                 body.query)]]

\* The cleanup callback: delete every context older than 24 hours.
RetentionMs == 24 * 60 * 60 * 1000
SweepIntervalMs == 60 * 60 * 1000

\* expired as it would be with half the retention window.
expired_early(context, t) == (t - context.created) > RetentionMs \div 2

expired(context, t) == (t - context.created) > RetentionMs

\* cleanup as it would be if it stopped after the first expired context.
cleanup_first(store, t) ==
    LET old == {id \in DOMAIN store : expired(store[id], t)} IN
    IF old = {} THEN store ELSE MapDelete(store, {CHOOSE id \in old : TRUE})

cleanup(store, t) ==
    MapDelete(store, {id \in DOMAIN store : expired(store[id], t)})

(***************************************************************************)
(* server.js as a state machine: requests arrive during the first          *)
(* MaxBusyHours hours, the clock runs on for MaxSrvHours hours, and the    *)
(* interval timer runs the cleanup once it is due (never early, at most    *)
(* MaxLate hours late).                                                    *)
(***************************************************************************)
MaxBusyHours == 1
MaxSrvHours == 27
MaxLate == 1

\* "a", "A\nb"
SrvContents == {<<97>>, <<65, 10, 98>>}
SrvPaths == {"a.txt", "__proto__"}
SrvAddFileBodies ==
    [context_id : IdInputs, path : SrvPaths \ {"__proto__"},
     content : SrvContents, repo : RepoNames, branch : BranchNames]
    \cup [context_id : IdInputs, path : {"__proto__"}, content : {<<97>>},
          repo : {Undefined}, branch : {Undefined}]
SrvRemoveFileBodies == [context_id : IdInputs, path : SrvPaths]

InitSrv ==
    /\ contextStore = <<>>
    /\ now = 0
    /\ res = NoResponse
    /\ issued = {}
    /\ sweepDue = SweepIntervalMs
    /\ CommitInit

Busy == now <= MaxBusyHours * HourMs

SrvInit ==
    \E r \in Rands, d \in Readings :
        /\ Busy
        /\ Handle(srv_init(contextStore, now, r, d))
        /\ issued' = issued \cup {ContextId(now, r)}
        /\ UNCHANGED <<now, sweepDue, refs, commits, att>>

SrvAddFile ==
    \E body \in SrvAddFileBodies :
        /\ Busy
        /\ Handle(srv_add_file(contextStore, body, now))
        /\ UNCHANGED <<now, issued, sweepDue, refs, commits, att>>

SrvRemoveFile ==
    \E body \in SrvRemoveFileBodies :
        /\ Busy
        /\ Handle(srv_remove_file(contextStore, body))
        /\ UNCHANGED <<now, issued, sweepDue, refs, commits, att>>

SrvGetContext ==
    \E query \in GetContextQueries :
        /\ Busy
        /\ Handle(srv_get_context(contextStore, query))
        /\ UNCHANGED <<now, issued, sweepDue, refs, commits, att>>

SrvSearch ==
    \E body \in SearchBodies :
        /\ Busy
        /\ Handle(srv_search(contextStore, body))
        /\ UNCHANGED <<now, issued, sweepDue, refs, commits, att>>

\* setInterval(..., 60 * 60 * 1000): the callback runs when the timer is due
\* and is scheduled again one interval after it ran.
Sweep ==
    /\ now >= sweepDue
    /\ contextStore' = cleanup(contextStore, now)
    /\ sweepDue' = now + SweepIntervalMs
    /\ res' = [op |-> "sweep", status |-> 0]
    /\ UNCHANGED <<now, issued, refs, commits, att>>

SrvTick ==
    /\ now < MaxSrvHours * HourMs
    /\ now < sweepDue + MaxLate * HourMs
    /\ now' = now + HourMs
    /\ res' = NoResponse
    /\ UNCHANGED <<contextStore, issued, sweepDue, refs, commits, att>>

NextSrv ==
    \/ SrvInit \/ SrvAddFile \/ SrvRemoveFile \/ SrvGetContext \/ SrvSearch
    \/ Sweep \/ SrvTick

SpecSrv == InitSrv /\ [][NextSrv]_vars

\* The timer is never starved: a due cleanup eventually runs.
FairSpecSrv == SpecSrv /\ WF_vars(Sweep) /\ WF_vars(SrvTick)

(***************************************************************************)
(* server.js with clients that come back: at the end of the run, when the  *)
(* contexts of the first hours have been swept, requests arrive again, on  *)
(* the ids handed out before, and new contexts are made.                   *)
(***************************************************************************)
Late == now >= MaxSrvHours * HourMs

LateInit ==
    \E r \in Rands, d \in Readings :
        /\ Late
        /\ Handle(srv_init(contextStore, now, r, d))
        /\ issued' = issued \cup {ContextId(now, r)}
        /\ UNCHANGED <<now, sweepDue, refs, commits, att>>

LateAddFile ==
    \E body \in SrvAddFileBodies :
        /\ Late /\ body.context_id \in issued
        /\ Handle(srv_add_file(contextStore, body, now))
        /\ UNCHANGED <<now, issued, sweepDue, refs, commits, att>>

LateRemoveFile ==
    \E body \in SrvRemoveFileBodies :
        /\ Late /\ body.context_id \in issued
        /\ Handle(srv_remove_file(contextStore, body))
        /\ UNCHANGED <<now, issued, sweepDue, refs, commits, att>>

LateGetContext ==
    \E query \in GetContextQueries :
        /\ Late /\ query.context_id \in issued
        /\ Handle(srv_get_context(contextStore, query))
        /\ UNCHANGED <<now, issued, sweepDue, refs, commits, att>>

LateSearch ==
    \E body \in SearchBodies :
        /\ Late /\ body.context_id \in issued
        /\ Handle(srv_search(contextStore, body))
        /\ UNCHANGED <<now, issued, sweepDue, refs, commits, att>>

NextSrvLate ==
    \/ NextSrv
    \/ LateInit \/ LateAddFile \/ LateRemoveFile \/ LateGetContext \/ LateSearch

SpecSrvLate == InitSrv /\ [][NextSrvLate]_vars

(***************************************************************************)
(* Commit requests against GitHub: up to MaxAttempts requests are in       *)
(* progress at once, their awaits interleave in any order, and every call  *)
(* to GitHub may fail.                                                     *)
(***************************************************************************)
InitCommit ==
    /\ contextStore = <<>>
    /\ now = 0
    /\ res = NoResponse
    /\ issued = {}
    /\ sweepDue = 0
    /\ CommitInit

\* attempts are numbered in the order their requests arrive
Free(a) ==
    /\ att[a].pc = "Idle"
    /\ \A b \in Attempts : b < a => att[b].pc # "Idle"

Step(a, x) ==
    /\ att' = [att EXCEPT ![a] = x]
    /\ UNCHANGED <<contextStore, now, res, issued, sweepDue>>

PushFiles ==
    \E a \in Attempts, body \in PushFilesBodies :
        /\ Free(a)
        /\ Step(a, receive(body))
        /\ UNCHANGED <<refs, commits>>

PutCommit ==
    \E a \in Attempts, body \in CommitBodies :
        /\ Free(a)
        /\ Step(a, commitReceive(body))
        /\ UNCHANGED <<refs, commits>>

CheckRepo ==
    \E a \in Attempts, outcome \in Outcomes :
        /\ att[a].pc = "CheckRepo"
        /\ Step(a, IF att[a].kind = "commit"
                   THEN commitCheckRepo(att[a], outcome)
                   ELSE checkRepoExists(att[a], outcome))
        /\ UNCHANGED <<refs, commits>>

GetRef ==
    \E a \in Attempts, outcome \in Outcomes :
        /\ att[a].pc = "GetRef"
        /\ Step(a, IF att[a].kind = "commit"
                   THEN commitGetRef(att[a], refs, outcome)
                   ELSE getRef(att[a], refs, outcome))
        /\ UNCHANGED <<refs, commits>>

GetCommit ==
    \E a \in Attempts, outcome \in Outcomes :
        /\ att[a].pc = "GetCommit"
        /\ Step(a, IF att[a].kind = "commit"
                   THEN commitGetCommit(att[a], commits, outcome)
                   ELSE getCommit(att[a], commits, outcome))
        /\ UNCHANGED <<refs, commits>>

CreateBlobs ==
    \E a \in Attempts :
        /\ att[a].pc = "CreateBlobs"
        /\ Step(a, IF att[a].kind = "commit"
                   THEN commitCreateBlob(att[a])
                   ELSE createBlobs(att[a]))
        /\ UNCHANGED <<refs, commits>>

BlobSettled ==
    \E a \in Attempts, outcome \in Outcomes :
        \E i \in att[a].pending :
            /\ Step(a, IF att[a].kind = "commit"
                       THEN commitBlobSettled(att[a], outcome)
                       ELSE blobSettled(att[a], i, outcome))
            /\ UNCHANGED <<refs, commits>>

CreateTree ==
    \E a \in Attempts, outcome \in Outcomes, policy \in Policies :
        /\ att[a].pc = "CreateTree"
        /\ Step(a, IF att[a].kind = "commit"
                   THEN commitCreateTree(att[a], outcome, policy)
                   ELSE createTree(att[a], outcome, policy))
        /\ UNCHANGED <<refs, commits>>

CreateCommit ==
    \E a \in Attempts, outcome \in Outcomes, sameSecond \in BOOLEAN :
        /\ att[a].pc = "CreateCommit"
        /\ LET out == IF att[a].kind = "commit"
                      THEN commitCreateCommit(att[a], commits, outcome, sameSecond)
                      ELSE createCommit(att[a], commits, outcome, sameSecond)
           IN
               /\ Step(a, out.att)
               /\ commits' = out.commits
        /\ UNCHANGED refs

UpdateRef ==
    \E a \in Attempts, outcome \in RefOutcomes :
        /\ att[a].pc = "UpdateRef"
        /\ LET out == IF att[a].kind = "commit"
                      THEN commitUpdateRef(att[a], refs, commits, outcome)
                      ELSE updateRef(att[a], refs, commits, outcome)
           IN
               /\ Step(a, out.att)
               /\ refs' = out.refs
        /\ UNCHANGED commits

NextCommit ==
    \/ PushFiles \/ PutCommit \/ CheckRepo \/ GetRef \/ GetCommit
    \/ CreateBlobs \/ BlobSettled \/ CreateTree \/ CreateCommit \/ UpdateRef

SpecCommit == InitCommit /\ [][NextCommit]_vars

\* every call to GitHub that is outstanding returns or fails in the end
Returns ==
    \/ CheckRepo \/ GetRef \/ GetCommit \/ CreateBlobs \/ BlobSettled
    \/ CreateTree \/ CreateCommit \/ UpdateRef

FairSpecCommit == SpecCommit /\ WF_vars(Returns)

(***************************************************************************)
(* Claims about the context store                                          *)
(***************************************************************************)
NeverCreated == IdInputs \ issued

\* the answer 404 "Context not found"
IsNotFound(r) == r.status = 404 /\ r.error = "Context not found"

\* C5 (as amended): on a context id that was never created, addFile,
\* removeFile, getContext and search fail and leave the store unchanged.
\* The handlers of server.js, which look the id up first and validate
\* nothing, fail with NotFound for every value of the other arguments; the
\* handlers of part_000, which validate the request before they look the
\* id up, fail with NotFound when the request is well-formed (the id and
\* the path, content or query not empty, repo and branch absent or not
\* empty) and with a Validation failure (400) when it is not.
C5_UnknownContext ==
    \A id \in NeverCreated :
        /\ \A body \in AddFileBodies :
              body.context_id = id =>
                  LET out == add_file(contextStore, body, now)
                      srv == srv_add_file(contextStore, body, now)
                  IN
                  /\ out.store = contextStore
                  /\ IF /\ id # EmptyId /\ body.path # "" /\ body.content # <<>>
                        /\ body.repo # "" /\ body.branch # ""
                     THEN IsNotFound(out.res)
                     ELSE out.res.status = 400
                  /\ srv.store = contextStore /\ IsNotFound(srv.res)
        /\ \A body \in RemoveFileBodies :
              body.context_id = id =>
                  LET out == remove_file(contextStore, body)
                      srv == srv_remove_file(contextStore, body)
                  IN
                  /\ out.store = contextStore
                  /\ IF id # EmptyId /\ body.path # ""
                     THEN IsNotFound(out.res)
                     ELSE out.res.status = 400
                  /\ srv.store = contextStore /\ IsNotFound(srv.res)
        /\ LET out == get_context(contextStore, [context_id |-> id])
               srv == srv_get_context(contextStore, [context_id |-> id])
           IN
           /\ out.store = contextStore
           /\ IF id # EmptyId
              THEN IsNotFound(out.res)
              ELSE out.res.status = 400
           /\ srv.store = contextStore /\ IsNotFound(srv.res)
        /\ \A body \in SearchBodies :
              body.context_id = id =>
                  LET out == search(contextStore, body)
                      srv == srv_search(contextStore, body)
                  IN
                  /\ out.store = contextStore
                  /\ IF id # EmptyId /\ body.query # <<>>
                     THEN IsNotFound(out.res)
                     ELSE out.res.status = 400
                  /\ srv.store = contextStore /\ IsNotFound(srv.res)

\* C5 witness: with a context in the store, a request on another id was
\* answered "Context not found".
C5_Witness ==
    /\ contextStore # <<>>
    /\ res.status = 404
    /\ res.op \in {"add_file", "remove_file", "get_context", "search"}
    /\ res.error = "Context not found"

\* C5 (as claimed): on a context id that was never created the four operations
\* fail with NotFound for every value of the other arguments, and the store is
\* unchanged.
C5_Original ==
    \A id \in NeverCreated :
        /\ \A body \in AddFileBodies :
              body.context_id = id =>
                  /\ add_file(contextStore, body, now).res.status = 404
                  /\ add_file(contextStore, body, now).store = contextStore
        /\ \A body \in RemoveFileBodies :
              body.context_id = id =>
                  /\ remove_file(contextStore, body).res.status = 404
                  /\ remove_file(contextStore, body).store = contextStore
        /\ get_context(contextStore, [context_id |-> id]).res.status = 404
        /\ \A body \in SearchBodies :
              body.context_id = id =>
                  /\ search(contextStore, body).res.status = 404
                  /\ search(contextStore, body).store = contextStore

AddBody(c, p, v) ==
    [context_id |-> c, path |-> p, content |-> v, repo |-> Undefined,
     branch |-> Undefined]

\* The entries a getContext response lists for path p
EntriesFor(r, p) == {i \in 1..Len(r.files) : r.files[i].path = p}

\* C6: after addFile(c, p, v1) then addFile(c, p, v2), getContext(c) shows
\* exactly one entry for p, with content v2 and size the byte length of v2.
C6_Original ==
    \A c \in DOMAIN contextStore :
      \A p \in Paths \ {""} :
        \A v1, v2 \in Contents \ {<<>>} :
            LET s1 == add_file(contextStore, AddBody(c, p, v1), now).store
                s2 == add_file(s1, AddBody(c, p, v2), now).store
                g == get_context(s2, [context_id |-> c]).res
            IN /\ Cardinality(EntriesFor(g, p)) = 1
               /\ \A i \in EntriesFor(g, p) :
                      /\ g.files[i].content = v2
                      /\ g.files[i].size = byteLength(v2)

\* C7: after a successful removeFile(c, p), getContext(c) does not show p; a
\* removeFile(c, p) when c does not list p fails with NotFound ("File not found
\* in context", not "Context not found") and changes nothing.
C7_Original ==
    \A c \in DOMAIN contextStore :
      \A p \in Paths \ {""} :
        LET out == remove_file(contextStore, [context_id |-> c, path |-> p])
            before == get_context(contextStore, [context_id |-> c]).res
            after == get_context(out.store, [context_id |-> c]).res
        IN /\ out.res.status = 200 => EntriesFor(after, p) = {}
           /\ EntriesFor(before, p) = {} =>
                  /\ out.res.status = 404
                  /\ out.res.error = "File not found in context"
                  /\ out.store = contextStore

(***************************************************************************)
(* Search, stated from the text of a file: line n is what lies between the *)
(* (n-1)th and the nth newline; two code units match without regard to     *)
(* case when their small letters are equal.                                *)
(***************************************************************************)
NewlinesOf(s) == {i \in 1..Len(s) : s[i] = Newline}
NthNewline(s, n) ==
    CHOOSE i \in NewlinesOf(s) : Cardinality({j \in NewlinesOf(s) : j <= i}) = n
LineCount(s) == Cardinality(NewlinesOf(s)) + 1
LineText(s, n) ==
    SubSeq(s, IF n = 1 THEN 1 ELSE NthNewline(s, n - 1) + 1,
              IF n = LineCount(s) THEN Len(s) ELSE NthNewline(s, n) - 1)
Small(c) == IF c >= 65 /\ c <= 90 THEN c + 32 ELSE c
ContainsIgnoringCase(line, q) ==
    \E k \in 0..(Len(line) - Len(q)) :
        \A j \in 1..Len(q) : Small(line[k + j]) = Small(q[j])
MatchingLines(s, q) ==
    {n \in 1..LineCount(s) : ContainsIgnoringCase(LineText(s, n), q)}

\* The (line number, line text) pairs a search response reports for a path
ReportedFor(r, p) ==
    UNION {{<<r.results[i].matches[k].line, r.results[i].matches[k].content>> :
                k \in 1..Len(r.results[i].matches)} :
           i \in {j \in 1..Len(r.results) : r.results[j].path = p}}

SearchAgrees(r, files, q, text(_)) ==
    \A i \in 1..Len(files) :
        ReportedFor(r, files[i].path) =
            {<<n, LineText(text(files[i]), n)>> : n \in MatchingLines(text(files[i]), q)}

RawText(entry) == entry.content
DecodedText(entry) == decodeContent(entry.content)

\* C8: search(c, q) with non-empty q reports, for every file of c, exactly the
\* lines that contain q without regard to case, each with its 1-based number,
\* and nothing for a file without such a line; repeating it changes nothing.
\* Stated of server.js's handler.
C8_Original ==
    \A c \in DOMAIN contextStore :
      \A q \in Queries \ {<<>>} :
        LET out == srv_search(contextStore, [context_id |-> c, query |-> q]) IN
        /\ out.res.status = 200
        /\ SearchAgrees(out.res, contextStore[c].files, q, RawText)
        /\ srv_search(out.store, [context_id |-> c, query |-> q]) = out

\* C8 holds of part_000's handler (checked under Spec).
C8_Part000 ==
    \A c \in DOMAIN contextStore :
      \A q \in Queries \ {<<>>} :
        LET out == search(contextStore, [context_id |-> c, query |-> q]) IN
        /\ out.res.status = 200
        /\ SearchAgrees(out.res, contextStore[c].files, q, DecodedText)
        /\ search(out.store, [context_id |-> c, query |-> q]) = out

(***************************************************************************)
(* Claims about eviction (server.js)                                       *)
(***************************************************************************)
\* The time the cleanup last ran; 0 before its first run.
lastSweep == sweepDue - SweepIntervalMs

Answers(id) ==
    /\ srv_get_context(contextStore, [context_id |-> id]).res.status = 200
    /\ \A q \in Queries :
          srv_search(contextStore, [context_id |-> id, query |-> q]).res.status = 200
    /\ \A p \in SrvPaths :
          /\ srv_remove_file(contextStore,
                             [context_id |-> id, path |-> p]).res.status = 200
          /\ srv_add_file(contextStore, AddBody(id, p, <<97>>), now).res.status = 200

\* C9: a context created at time t is in the store, and its operations do not
\* fail with NotFound, at every time strictly before t + 24h, whatever
\* requests and cleanup runs came before; no step takes a context out of
\* the store that is younger than 24 hours by its `created`.
C9_PresentWhileYoung ==
    /\ [](\A id \in issued :
             now < id.t + RetentionMs => has(contextStore, id) /\ Answers(id))
    /\ [][\A id \in DOMAIN contextStore :
             now' < contextStore[id].created + RetentionMs =>
                 has(contextStore', id)]_vars

\* C9 witness: the cleanup has just run on a store holding a context that is
\* 23 hours old, and the context is still there.
C9_Witness ==
    /\ res.op = "sweep"
    /\ \E id \in DOMAIN contextStore :
          /\ now - contextStore[id].created = RetentionMs - HourMs
          /\ contextStore[id].files # <<>>

AllIds == {ContextId(h * HourMs, r) : h \in 0..MaxBusyHours, r \in Rands}

C10_AbsentAfterSweep ==
    /\ \A id \in issued : lastSweep > id.t + RetentionMs => ~has(contextStore, id)
    /\ \A id \in DOMAIN contextStore :
           lastSweep <= contextStore[id].created + RetentionMs

C10_SinglePass ==
    res.op = "sweep" => \A id \in DOMAIN contextStore : ~expired(contextStore[id], now)

\* C10: once the cleanup has run after t + 24h, a context created at t is
\* absent from then on; a cleanup run leaves no expired context behind; and
\* with a timer that is not starved every context is eventually evicted.
C10_Eviction ==
    /\ [](C10_AbsentAfterSweep /\ C10_SinglePass)
    /\ \A id \in AllIds : has(contextStore, id) ~> ~has(contextStore, id)

\* C10 witness: two contexts were created, the cleanup has run after both
\* turned 24 hours old, and the store is empty.
C10_Witness ==
    /\ Cardinality(issued) = 2
    /\ \A id \in issued : lastSweep > id.t + RetentionMs
    /\ res.op = "sweep"
    /\ contextStore = <<>>

(***************************************************************************)
(* Claims about the commit builder                                         *)
(***************************************************************************)
SameTarget(x, y) ==
    x.body.repoName = y.body.repoName /\ x.body.branch = y.body.branch

\* attempt a2 is about to send its ref update; a1 resolved the same head
\* and its ref update has been applied
Raced(a1, a2) ==
    /\ a1 # a2
    /\ att[a2].pc = "UpdateRef"
    /\ att[a1].applied
    /\ SameTarget(att[a1], att[a2])
    /\ att[a1].latestCommitSha = att[a2].latestCommitSha

NoOtherWriter(a1, a2) ==
    \A a3 \in Attempts \ {a1, a2} :
        ~(att[a3].applied /\ SameTarget(att[a3], att[a2]))

\* the answer names a conflict: HTTP 409, the status of the Conflict kind
ConflictOutcome(r) == r.status = 409

\* C1: of two commit attempts on one repo and branch that resolved the same
\* head, once attempt 1's ref update has been applied, attempt 2's ref
\* update fails with a Conflict outcome, and afterwards the branch head is
\* exactly attempt 1's commit (no third writer having moved it), never
\* attempt 2's.
C1_Original ==
    [][\A a1, a2 \in Attempts :
          (Raced(a1, a2) /\ att'[a2] # att[a2]) =>
              LET b == att[a2].body.branch IN
              /\ att'[a2].pc = "Aborted"
              /\ ~att'[a2].applied
              /\ ConflictOutcome(att'[a2].res)
              /\ refs' = refs
              /\ NoOtherWriter(a1, a2) => refs'[b] = att[a1].commitSha]_vars

Issued(x) == \E i \in DOMAIN x.calls : x.calls[i] = "git.updateRef"

\* the repo check, the head, the head's tree, every blob, the tree and the
\* commit are there
StepsDone(x) ==
    /\ x.latestCommitSha # NoSha
    /\ x.baseTreeSha # NoTree
    /\ x.pending = {}
    /\ Len(x.blobs) = Len(RequestFiles(x))
    /\ \A i \in DOMAIN x.blobs : x.blobs[i] # NoBlob
    /\ x.treeSha # NoTree
    /\ x.commitSha # NoSha

\* C2: an attempt in which the repo check, resolving the head, fetching the
\* head's tree, a blob, the tree or the commit failed never issues the ref
\* update, then or later, and its failing step leaves every branch head as
\* it was; a branch head changes only in the ref update of an attempt whose
\* earlier steps all succeeded.
C2_NoRefUpdateAfterFailure ==
    /\ [](\A a \in Attempts : Issued(att[a]) => StepsDone(att[a]))
    /\ [][/\ \A a \in Attempts :
                /\ (att[a].pc \notin {"Aborted", "UpdateRef"}
                        /\ att'[a].pc = "Aborted") =>
                       (~Issued(att'[a]) /\ refs' = refs)
                /\ att[a].pc = "Aborted" =>
                       (att'[a].pc = "Aborted" /\ att'[a].calls = att[a].calls)
          /\ refs' # refs =>
                \E a \in Attempts :
                    /\ att[a].pc = "UpdateRef"
                    /\ StepsDone(att[a])
                    /\ refs' = [refs EXCEPT
                                  ![att[a].body.branch] = att[a].commitSha]]_vars

\* an attempt whose createCommit failed: aborted, no ref update, head as
\* resolved
C2_Witness ==
    \E a \in Attempts :
        /\ att[a].pc = "Aborted"
        /\ att[a].res.status = 500
        /\ att[a].treeSha # NoTree
        /\ att[a].calls[Len(att[a].calls)] = "git.createCommit"
        /\ refs[att[a].body.branch] = att[a].latestCommitSha

Commits(a) == att[a].pc = "UpdateRef" /\ att'[a].pc = "Committed"

RECURSIVE WellFormed(_)
WellFormed(s) ==
    IF s = <<>> THEN TRUE
    ELSE IF IsHighSurrogate(s[1])
    THEN Len(s) >= 2 /\ IsLowSurrogate(s[2]) /\ WellFormed(Tail(Tail(s)))
    ELSE ~IsLowSurrogate(s[1]) /\ WellFormed(Tail(s))

Once(files, i) == \A j \in DOMAIN files : files[j].path = files[i].path => j = i

NewHead(x) ==
    LET b == x.body.branch IN
    /\ refs'[b] = x.commitSha
    /\ x.commitSha # x.latestCommitSha
    /\ commits'[x.commitSha].message = x.body.message
    /\ commits'[x.commitSha].parents = <<x.latestCommitSha>>

\* C3 (as amended): a successful commit of files F with message m on branch
\* B resolved at head H leaves B pointing at a commit H2 # H with message m
\* and parent H; its tree holds every path of F with the bytes of a content
\* given for that path, and for a path listed once whose content is
\* well-formed text a later read of the path on B returns that content.
C3_CommitHoldsFiles ==
    [][\A a \in Attempts : Commits(a) =>
          LET x == att'[a]
              files == RequestFiles(x)
              tree == commits'[refs'[x.body.branch]].tree
          IN
          /\ NewHead(x)
          /\ \A i \in DOMAIN files :
                /\ files[i].path \in DOMAIN tree
                /\ \E j \in DOMAIN files :
                       /\ files[j].path = files[i].path
                       /\ tree[files[i].path] = Utf8Bytes(files[j].content)
                /\ (Once(files, i) /\ WellFormed(files[i].content)) =>
                       readFile(refs', commits', x.body.branch, files[i].path)
                           = files[i].content]_vars

\* a two-file push went through and both files read back as sent
C3_Witness ==
    \E a \in Attempts :
        LET x == att[a] IN
        /\ x.pc = "Committed"
        /\ Len(RequestFiles(x)) = 2
        /\ refs[x.body.branch] = x.commitSha
        /\ x.commitSha # x.latestCommitSha
        /\ \A i \in DOMAIN RequestFiles(x) :
               /\ Once(RequestFiles(x), i)
               /\ WellFormed(RequestFiles(x)[i].content)
               /\ readFile(refs, commits, x.body.branch, RequestFiles(x)[i].path)
                      = RequestFiles(x)[i].content

\* C3 as stated: after a successful commit a read of every path of F on B
\* returns exactly the content given in the request.
C3_Original ==
    [][\A a \in Attempts : Commits(a) =>
          LET x == att'[a] IN
          /\ NewHead(x)
          /\ \A i \in DOMAIN RequestFiles(x) :
                readFile(refs', commits', x.body.branch, RequestFiles(x)[i].path)
                    = RequestFiles(x)[i].content]_vars

Listed(x, p) == \E i \in DOMAIN RequestFiles(x) : RequestFiles(x)[i].path = p

\* C4: the tree a successful commit is built on is the tree of the head
\* resolved in step 1, and every path of that tree the request does not
\* list is in the new head's tree with the same blob.
C4_BaseTreeKept ==
    [][\A a \in Attempts : Commits(a) =>
          LET x == att'[a]
              base == commits[x.latestCommitSha].tree
              tree == commits'[refs'[x.body.branch]].tree
          IN
          /\ x.baseTreeSha = base
          /\ \A p \in DOMAIN base :
                ~Listed(x, p) => (p \in DOMAIN tree /\ tree[p] = base[p])]_vars

\* a commit of a.txt alone on a head that already had b.txt from an earlier
\* push: b.txt and c.txt are still there, unchanged
C4_Witness ==
    \E a \in Attempts :
        LET x == att[a]
            base == commits[x.latestCommitSha].tree
            tree == commits[x.commitSha].tree
        IN
        /\ x.pc = "Committed"
        /\ RequestFiles(x) # <<>>
        /\ refs[x.body.branch] = x.commitSha
        /\ {"b.txt", "c.txt"} \subseteq DOMAIN base
        /\ ~Listed(x, "b.txt")
        /\ tree["b.txt"] = base["b.txt"] /\ tree["c.txt"] = base["c.txt"]
        /\ tree["a.txt"] # base["a.txt"]

(***************************************************************************)
(* Claims about ids: swept ids stay out, new ids are new                   *)
(***************************************************************************)
\* server.js removes a context only in the cleanup, so an id handed out and
\* no longer in the store was swept
Swept == issued \ DOMAIN contextStore

\* C11: once the sweep has deleted a context id, addFile, removeFile,
\* getContext and search on that id answer NotFound and leave the store as
\* it is, a create call returns another id, and no step of the server puts
\* the id back into the store.
C11_SweptStaysOut ==
    /\ [](\A id \in Swept :
             /\ \A body \in SrvAddFileBodies :
                    body.context_id = id =>
                        LET out == srv_add_file(contextStore, body, now) IN
                        out.res.status = 404 /\ out.store = contextStore
             /\ \A body \in SrvRemoveFileBodies :
                    body.context_id = id =>
                        LET out == srv_remove_file(contextStore, body) IN
                        out.res.status = 404 /\ out.store = contextStore
             /\ LET out == srv_get_context(contextStore, [context_id |-> id]) IN
                    out.res.status = 404 /\ out.store = contextStore
             /\ \A body \in SearchBodies :
                    body.context_id = id =>
                        LET out == srv_search(contextStore, body) IN
                        out.res.status = 404 /\ out.store = contextStore
             /\ \A r \in Rands, d \in Readings :
                    ~has(srv_init(contextStore, now, r, d).store, id))
    /\ [][\A id \in Swept : ~has(contextStore', id)]_vars

\* a context of the first hours was swept; afterwards add_file on an id
\* handed out before was answered "Context not found"
C11_Witness ==
    /\ Late
    /\ Swept # {}
    /\ DOMAIN contextStore = {}
    /\ res.op = "add_file"
    /\ res.status = 404

\* C12: create always succeeds, returns an id that no earlier create
\* returned, and leaves every context already in the store as it was.
C12_Original ==
    \A r \in Rands, d \in Readings :
        LET out == init(contextStore, now, r, d) IN
        /\ out.res.status = 200
        /\ out.res.context_id \notin issued
        /\ \A id \in DOMAIN contextStore :
               has(out.store, id) /\ out.store[id] = contextStore[id]

(***************************************************************************)
(* Claims about what the commit builder refuses and how it reports         *)
(***************************************************************************)
Terminal(x) == x.pc \in {"Committed", "Aborted"}

LastCall(x) == IF x.calls = <<>> THEN "none" ELSE x.calls[Len(x.calls)]

\* C13: a commit request with an empty file list is refused as a validation
\* failure before any call to GitHub is made: no attempt with an empty file
\* list is ever past validation, and none has called GitHub.
C13_Original ==
    \A a \in Attempts :
        RequestFiles(att[a]) = <<>> =>
            (att[a].pc \in {"Idle", "Rejected"} /\ att[a].calls = <<>>)

HasEmptyContent(body) ==
    \E i \in DOMAIN body.files : body.files[i].content = <<>>

\* the request with "x" in place of every empty content
FilledIn(body) ==
    [body EXCEPT !.files =
        [i \in DOMAIN body.files |->
            IF body.files[i].content = <<>>
            THEN [body.files[i] EXCEPT !.content = <<120>>]
            ELSE body.files[i]]]

\* C14: a commit request, multi-file or single-file, in which a file has
\* empty content is not refused by validation: the handler takes it up.
C14_Original ==
    \A a \in Attempts :
        att[a].pc = "Idle" =>
            /\ \A body \in PushFilesBodies :
                   (HasEmptyContent(body) /\ bodyValid(FilledIn(body))) =>
                       receive(body).pc = "CheckRepo"
            /\ \A body \in CommitBodies :
                   (body.content = <<>>
                        /\ commitValid([body EXCEPT !.content = <<120>>])) =>
                       commitReceive(body).pc = "CheckRepo"

\* C15: when GitHub answers that the repo, or the branch, does not exist,
\* the attempt ends there with a NotFound answer (404), before any blob,
\* tree or commit is made.
C15_Original ==
    \A a \in Attempts :
        LET x == att[a] IN
        /\ (x.pc = "CheckRepo" /\ x.body.repoName \notin Repos) =>
               LET y == IF x.kind = "commit" THEN commitCheckRepo(x, "ok")
                        ELSE checkRepoExists(x, "ok")
               IN
               y.pc = "Aborted" /\ y.res.status = 404
        /\ (x.pc = "GetRef" /\ x.body.branch \notin DOMAIN refs) =>
               LET y == IF x.kind = "commit" THEN commitGetRef(x, refs, "ok")
                        ELSE getRef(x, refs, "ok")
               IN
               y.pc = "Aborted" /\ y.res.status = 404

FailedInRefUpdate(x) == x.pc = "Aborted" /\ LastCall(x) = "git.updateRef"

FailedBefore(x) ==
    x.pc = "Aborted" /\ x.res.status = 500 /\ LastCall(x) # "git.updateRef"

\* C16: the answer to a request whose ref update failed or timed out is
\* different from the answer to a request of the same kind that failed in
\* an earlier step.
C16_Original ==
    \A a, b \in Attempts :
        (FailedInRefUpdate(att[a]) /\ FailedBefore(att[b])
            /\ att[a].kind = att[b].kind) =>
            att[a].res # att[b].res

(***************************************************************************)
(* Claims about the course of one commit attempt                           *)
(***************************************************************************)
Count(x, name) == Cardinality({i \in DOMAIN x.calls : x.calls[i] = name})

OnceCalls ==
    {"repos.get", "git.getRef", "git.getCommit", "git.createTree",
     "git.createCommit", "git.updateRef"}

\* C17: within one attempt the repo check, head resolution, tree fetch,
\* tree creation, commit creation and ref update are each issued at most
\* once, blob creation is issued once per request file (all of them or none
\* yet), and an attempt that has failed issues no further call.
C17_NoRetry ==
    /\ [](\A a \in Attempts :
             /\ \A name \in OnceCalls : Count(att[a], name) <= 1
             /\ Count(att[a], "git.createBlob") \in {0, Len(RequestFiles(att[a]))})
    /\ [][\A a \in Attempts :
             att[a].pc = "Aborted" =>
                 (att'[a].pc = "Aborted" /\ att'[a].calls = att[a].calls)]_vars

\* a two-file push refused at its ref update: two blob calls, every other
\* call once, nothing after the refusal
C17_Witness ==
    \E a \in Attempts :
        /\ att[a].pc = "Aborted"
        /\ att[a].res.status = 500
        /\ att[a].res.details = "Update is not a fast forward"
        /\ Len(RequestFiles(att[a])) = 2
        /\ att[a].calls = <<"repos.get", "git.getRef", "git.getCommit",
                            "git.createBlob", "git.createBlob",
                            "git.createTree", "git.createCommit",
                            "git.updateRef">>

\* C18: every commit an attempt made has exactly one parent, the head the
\* attempt resolved, and the tree the attempt created; an attempt calls
\* createCommit once, every commit object added to the repository is added
\* by such a call, and a successful request moves the ref to its commit.
C18_OneParentOneCommit ==
    /\ [](\A a \in Attempts :
             att[a].commitSha # NoSha =>
                 /\ commits[att[a].commitSha].parents
                        = <<att[a].latestCommitSha>>
                 /\ att[a].latestCommitSha # NoSha
                 /\ commits[att[a].commitSha].tree = att[a].treeSha
                 /\ Count(att[a], "git.createCommit") = 1)
    /\ [][(\A a \in Attempts : Commits(a) =>
                (/\ refs'[att[a].body.branch] = att[a].commitSha
                 /\ att'[a].commitSha = att[a].commitSha))
           /\ (commits' # commits =>
                  \E a \in Attempts :
                      /\ att[a].pc = "CreateCommit"
                      /\ att'[a].commitSha = Len(commits')
                      /\ commits' = Append(commits,
                             [message |-> att[a].body.message,
                              tree |-> att[a].treeSha,
                              parents |-> <<att[a].latestCommitSha>>]))]_vars

\* one request went through: one commit more than at the start, its parent
\* the first head, and the branch on it
C18_Witness ==
    \E a \in Attempts :
        /\ att[a].pc = "Committed"
        /\ Len(commits) = 2
        /\ att[a].commitSha = 2
        /\ commits[2].parents = <<1>>
        /\ commits[2].tree = att[a].treeSha
        /\ refs[att[a].body.branch] = 2

\* the state of the attempt's state machine the handler is in
Phase(pc) ==
    CASE pc \in {"CheckRepo", "GetRef", "GetCommit"} -> "Resolving"
      [] pc \in {"CreateBlobs", "BlobsPending"} -> "BlobsPending"
      [] pc = "CreateTree" -> "TreeBuilding"
      [] pc = "CreateCommit" -> "CommitPending"
      [] pc = "UpdateRef" -> "RefUpdating"
      [] OTHER -> pc

NextPhase(p) ==
    CASE p = "Resolving" -> "BlobsPending"
      [] p = "BlobsPending" -> "TreeBuilding"
      [] p = "TreeBuilding" -> "CommitPending"
      [] p = "CommitPending" -> "RefUpdating"
      [] p = "RefUpdating" -> "Committed"
      [] OTHER -> "none"

\* what the step before must have produced when the attempt enters q
Produced(y, q) ==
    CASE q = "BlobsPending" ->
             y.latestCommitSha # NoSha /\ y.baseTreeSha # NoTree
      [] q = "TreeBuilding" ->
             /\ y.pending = {}
             /\ Len(y.blobs) = Len(RequestFiles(y))
             /\ \A i \in DOMAIN y.blobs : y.blobs[i] # NoBlob
      [] q = "CommitPending" -> y.treeSha # NoTree
      [] q = "RefUpdating" -> y.commitSha # NoSha
      [] q = "Committed" -> y.applied /\ y.res.status = 200
      [] OTHER -> FALSE

\* C19: an attempt goes Resolving, BlobsPending, TreeBuilding,
\* CommitPending, RefUpdating in that order, one state at a time and never
\* back, entering a state only with the result of the step before;
\* Committed is entered only from RefUpdating when the ref update was
\* applied and answered; every other way out is Aborted, and Committed and
\* Aborted are never left.
C19_StateOrder ==
    [][\A a \in Attempts :
          LET p == Phase(att[a].pc)
              q == Phase(att'[a].pc)
          IN p # q =>
                CASE p = "Idle" -> q \in {"Resolving", "Rejected"}
                  [] NextPhase(p) # "none" ->
                         \/ q = "Aborted"
                         \/ q = NextPhase(p) /\ Produced(att'[a], q)
                  [] OTHER -> FALSE]_vars

\* a request that went through every state to Committed
C19_Witness ==
    \E a \in Attempts :
        /\ att[a].pc = "Committed"
        /\ att[a].applied
        /\ RequestFiles(att[a]) # <<>>
        /\ LastCall(att[a]) = "git.updateRef"
        /\ Count(att[a], "git.createBlob") = Len(RequestFiles(att[a]))
        /\ \A name \in OnceCalls : Count(att[a], name) = 1

\* C20: when every call to GitHub returns or fails, every attempt ends
\* Committed or Aborted; it has sent a response exactly when it has ended,
\* and once ended its outcome, its response and its calls do not change.
C20_OneOutcome ==
    /\ \A a \in Attempts :
           (att[a].pc \notin {"Idle", "Rejected"}) ~> Terminal(att[a])
    /\ [](\A a \in Attempts :
             att[a].pc \notin {"Idle", "Rejected"} =>
                 (Terminal(att[a]) <=> att[a].res # NoResponse))
    /\ [][\A a \in Attempts :
             /\ Terminal(att[a]) =>
                    /\ att'[a].pc = att[a].pc
                    /\ att'[a].res = att[a].res
                    /\ att'[a].calls = att[a].calls
             /\ att'[a].res # att[a].res => att[a].res = NoResponse]_vars

\* both requests have ended, one Committed and one Aborted, no call is
\* outstanding and each has its response
C20_Witness ==
    /\ \A a \in Attempts : Terminal(att[a]) /\ att[a].pending = {}
    /\ \E a \in Attempts : att[a].pc = "Committed" /\ att[a].res.status = 200
    /\ \E a \in Attempts : att[a].pc = "Aborted" /\ att[a].res.status = 500

(***************************************************************************)
(* Claims about what a context-store request leaves alone                  *)
(***************************************************************************)
\* every context but `id` is in the store afterwards as it was before, and
\* no context but `id` has appeared
OthersKept(before, after, id) ==
    /\ DOMAIN after \subseteq DOMAIN before \cup {id}
    /\ \A x \in DOMAIN before \ {id} : has(after, x) /\ after[x] = before[x]

\* context `id`, where it exists, is as it was
TargetKept(before, after, id) ==
    has(before, id) => (has(after, id) /\ after[id] = before[id])

\* of context `id` everything but the entry of `path` is as it was
RestKept(before, after, id, path) ==
    has(before, id) =>
        /\ has(after, id)
        /\ after[id].repoInfo = before[id].repoInfo
        /\ after[id].created = before[id].created
        /\ SelectSeq(after[id].files, LAMBDA e : e.path # path)
               = SelectSeq(before[id].files, LAMBDA e : e.path # path)

Changed(id) ==
    (has(contextStore, id) /\ ~has(contextStore', id))
        \/ (has(contextStore', id) /\ ~has(contextStore, id))
        \/ (has(contextStore, id) /\ has(contextStore', id)
                /\ contextStore'[id] # contextStore[id])

\* C21: create, addFile, removeFile, getContext and search, whether they
\* succeed or fail, leave every context other than the one the request
\* names as it was; getContext and search leave the named context as it was
\* too; removeFile leaves the named context's other files and its repoInfo
\* as they were.  Stated of the handlers of part_000 and of server.js, and
\* of every step the store takes.
C21_Frame ==
    /\ [](/\ \A r \in Rands, d \in Readings :
                /\ OthersKept(contextStore, init(contextStore, now, r, d).store,
                              ContextId(now, r))
                /\ OthersKept(contextStore, srv_init(contextStore, now, r, d).store,
                              ContextId(now, r))
          /\ \A body \in AddFileBodies :
                /\ OthersKept(contextStore,
                              add_file(contextStore, body, now).store,
                              body.context_id)
                /\ OthersKept(contextStore,
                              srv_add_file(contextStore, body, now).store,
                              body.context_id)
          /\ \A body \in RemoveFileBodies :
                /\ OthersKept(contextStore,
                              remove_file(contextStore, body).store,
                              body.context_id)
                /\ RestKept(contextStore, remove_file(contextStore, body).store,
                            body.context_id, body.path)
                /\ OthersKept(contextStore,
                              srv_remove_file(contextStore, body).store,
                              body.context_id)
                /\ RestKept(contextStore,
                            srv_remove_file(contextStore, body).store,
                            body.context_id, body.path)
          /\ \A query \in GetContextQueries :
                /\ get_context(contextStore, query).store = contextStore
                /\ srv_get_context(contextStore, query).store = contextStore
          /\ \A body \in SearchBodies :
                /\ search(contextStore, body).store = contextStore
                /\ srv_search(contextStore, body).store = contextStore)
    /\ [][/\ \A id1, id2 \in DOMAIN contextStore \cup DOMAIN contextStore' :
                (Changed(id1) /\ Changed(id2)) => id1 = id2
          /\ res'.op \in {"get_context", "search"} =>
                contextStore' = contextStore]_vars

\* two contexts, each with a file; a remove_file on one of them went
\* through and the other still has its file
C21_Witness ==
    /\ Cardinality(DOMAIN contextStore) = 2
    /\ res.op = "remove_file" /\ res.status = 200
    /\ \E c1, c2 \in DOMAIN contextStore :
           /\ contextStore[c1].files = <<>>
           /\ Len(contextStore[c2].files) = 1

(***************************************************************************)
(* Claims about repoInfo                                                   *)
(***************************************************************************)
\* repo and branch as a request may send them: left out, empty, or a name
RepoInputs == {Undefined, "", "r1", "r2"}
BranchInputs == {Undefined, "", "dev"}

\* a request supplies repo when it carries a repo name: if (repo)
Supplies(v) == v \notin {Undefined, ""}

RepoBody(c, p, r, b) ==
    [context_id |-> c, path |-> p, content |-> <<97>>, repo |-> r, branch |-> b]

\* the repoInfo an addFile with (r, b) must leave, given the one before
RepoInfoAfter(before, r, b) ==
    IF Supplies(r)
    THEN [repo |-> r, branch |-> IF Supplies(b) THEN b ELSE "main"]
    ELSE before

\* C22: an addFile that goes through and supplies repo leaves the context's
\* repoInfo equal to (repo, branch), with "main" for a branch left out; one
\* that supplies no repo leaves repoInfo as it was, with or without a
\* branch; of two in a row the second decides.  Stated of the handlers of
\* part_000 and of server.js.
C22_RepoInfo ==
    \A c \in DOMAIN contextStore :
      \A r \in RepoInputs, b \in BranchInputs :
        LET before == contextStore[c].repoInfo
            one == add_file(contextStore, RepoBody(c, "a.txt", r, b), now)
            srv1 == srv_add_file(contextStore, RepoBody(c, "a.txt", r, b), now)
            first == add_file(contextStore, RepoBody(c, "a.txt", "r1", "dev"), now)
            two == add_file(first.store, RepoBody(c, "b.txt", r, b), now)
            srv2 == srv_add_file(
                        srv_add_file(contextStore,
                                     RepoBody(c, "a.txt", "r1", "dev"), now).store,
                        RepoBody(c, "b.txt", r, b), now)
        IN /\ one.res.status = 200 =>
                  one.store[c].repoInfo = RepoInfoAfter(before, r, b)
           /\ srv1.res.status = 200
           /\ srv1.store[c].repoInfo = RepoInfoAfter(before, r, b)
           /\ first.res.status = 200
           /\ two.res.status = 200 =>
                  two.store[c].repoInfo =
                      RepoInfoAfter([repo |-> "r1", branch |-> "dev"], r, b)
           /\ srv2.store[c].repoInfo =
                  RepoInfoAfter([repo |-> "r1", branch |-> "dev"], r, b)

\* a context whose repoInfo was set by an add_file with repo r1 and no
\* branch, and which has had a second add_file since
C22_Witness ==
    /\ res.op = "add_file" /\ res.status = 200
    /\ \E c \in DOMAIN contextStore :
           /\ contextStore[c].repoInfo = [repo |-> "r1", branch |-> "main"]
           /\ Len(contextStore[c].files) = 2

(***************************************************************************)
(* Claims about what getContext shows                                      *)
(***************************************************************************)
\* the response of getContext on context c of the store
Shown(c) == get_context(contextStore, [context_id |-> c]).res

\* C23: in every reachable state of part_000's store, for every context and
\* every file getContext lists, the size listed is the number of bytes of
\* the UTF-8 form of the content listed.
C23_SizeIsByteLength ==
    \A c \in DOMAIN contextStore :
        /\ Shown(c).status = 200
        /\ \A i \in DOMAIN Shown(c).files :
               Shown(c).files[i].size = Len(Utf8Bytes(Shown(c).files[i].content))

\* a context with two files, one sent as a lone surrogate and shown as
\* U+FFFD with size 3, the other "A\nb" written in the second hour
C23_Witness ==
    \E c \in DOMAIN contextStore :
        /\ Len(Shown(c).files) = 2
        /\ \E i \in DOMAIN Shown(c).files :
               /\ Shown(c).files[i].content = <<65533>>
               /\ Shown(c).files[i].size = 3
        /\ \E i \in DOMAIN Shown(c).files :
               /\ Shown(c).files[i].content = <<65, 10, 98>>
               /\ Shown(c).files[i].size = 3
               /\ Shown(c).files[i].added > 0

\* text with every surrogate that has no partner replaced by U+FFFD
\* the entries of a getContext response for paths other than p
ShownElsewhere(r, p) == SelectSeq(r.files, LAMBDA e : e.path # p)

\* getContext on c shows the files object of c as it is now: one entry per
\* own property, in the object's order, and their number
ShowsLive(store, c) ==
    LET r == get_context(store, [context_id |-> c]).res IN
    /\ r.status = 200
    /\ r.file_count = Len(r.files)
    /\ Len(r.files) = Len(store[c].files)
    /\ \A i \in DOMAIN r.files : r.files[i].path = store[c].files[i].path
    /\ \A i, j \in DOMAIN r.files : r.files[i].path = r.files[j].path => i = j
    /\ r.repo_info = store[c].repoInfo

\* getContext after addFile(c, p, v) went through: p is shown once with
\* `text`, and every other path as it was shown before
ShowsAdded(c, p, v, text) ==
    LET out == add_file(contextStore, AddBody(c, p, v), now)
        r == get_context(out.store, [context_id |-> c]).res
    IN out.res.status = 200 =>
           /\ ShowsLive(out.store, c)
           /\ Cardinality(EntriesFor(r, p)) = 1
           /\ \A i \in EntriesFor(r, p) : r.files[i].content = text
           /\ ShownElsewhere(r, p) = ShownElsewhere(Shown(c), p)

\* getContext after removeFile(c, p): p is not shown, every other path is
\* shown as before
ShowsRemoved(c, p) ==
    LET out == remove_file(contextStore, [context_id |-> c, path |-> p])
        r == get_context(out.store, [context_id |-> c]).res
    IN /\ ShowsLive(out.store, c)
       /\ out.res.status = 200 => EntriesFor(r, p) = {}
       /\ ShownElsewhere(r, p) = ShownElsewhere(Shown(c), p)

\* C24: getContext(c) returns the live state at call time: file_count is
\* the number of files listed; after a successful addFile(c, p, v) the path
\* p is listed once, with the text v, and every other path as before;
\* after removeFile(c, p) p is not listed and every other path is as
\* before.
C24_Original ==
    \A c \in DOMAIN contextStore :
        /\ ShowsLive(contextStore, c)
        /\ \A p \in Paths, v \in Contents : ShowsAdded(c, p, v, v)
        /\ \A p \in Paths : ShowsRemoved(c, p)

(***************************************************************************)
(* Claims that compare the two commit endpoints, and the order of files    *)
(***************************************************************************)
\* the push_files request with files = [(path, content)] and the same
\* repo, branch and message
PushBodyOf(body) ==
    [repoName |-> body.repoName, branch |-> body.branch,
     files |-> <<File(body.path, body.content)>>, message |-> body.message]

\* a PUT /commit attempt read as an attempt of that push_files request
AsPushFiles(x) ==
    [x EXCEPT !.kind = "push_files",
              !.body = IF @ = NoCommitBody THEN NoBody ELSE PushBodyOf(@)]

\* the answers of the two endpoints say the same in their own wording
SameAnswer(r, q) ==
    /\ r.status = q.status
    /\ r.status = 500 => r.details = q.details
    /\ r.status = 200 =>
           r.commit_sha = q.commit.sha /\ r.message = q.commit.message

\* a PUT /commit attempt y and a push_files attempt z agree on the calls
\* sent, their arguments and everything a later call is made from
SameCourse(y, z) ==
    /\ y.kind = "commit" /\ z.kind = "push_files"
    /\ [AsPushFiles(y) EXCEPT !.res = NoResponse]
           = [z EXCEPT !.res = NoResponse]
    /\ SameAnswer(y.res, z.res)

\* the next step of POST /v1/push_files from where attempt x stands, for
\* one behaviour of GitHub: the attempt, the refs and the commits afterwards
AfterStep(x, outcome, policy, sameSecond, i) ==
    CASE x.pc = "CheckRepo" ->
             [att |-> checkRepoExists(x, outcome), refs |-> refs,
              commits |-> commits]
      [] x.pc = "GetRef" ->
             [att |-> getRef(x, refs, outcome), refs |-> refs,
              commits |-> commits]
      [] x.pc = "GetCommit" ->
             [att |-> getCommit(x, commits, outcome), refs |-> refs,
              commits |-> commits]
      [] x.pc = "CreateBlobs" ->
             [att |-> createBlobs(x), refs |-> refs, commits |-> commits]
      [] x.pc = "BlobsPending" /\ i \in x.pending ->
             [att |-> blobSettled(x, i, outcome), refs |-> refs,
              commits |-> commits]
      [] x.pc = "CreateTree" ->
             [att |-> createTree(x, outcome, policy), refs |-> refs,
              commits |-> commits]
      [] x.pc = "CreateCommit" ->
             [att |-> createCommit(x, commits, outcome, sameSecond).att,
              refs |-> refs,
              commits |-> createCommit(x, commits, outcome, sameSecond).commits]
      [] x.pc = "UpdateRef" ->
             [att |-> updateRef(x, refs, commits, outcome).att,
              refs |-> updateRef(x, refs, commits, outcome).refs,
              commits |-> commits]
      [] OTHER -> [att |-> x, refs |-> refs, commits |-> commits]

\* the next step of PUT /commit from where attempt x stands
AfterCommitStep(x, outcome, policy, sameSecond) ==
    CASE x.pc = "CheckRepo" ->
             [att |-> commitCheckRepo(x, outcome), refs |-> refs,
              commits |-> commits]
      [] x.pc = "GetRef" ->
             [att |-> commitGetRef(x, refs, outcome), refs |-> refs,
              commits |-> commits]
      [] x.pc = "GetCommit" ->
             [att |-> commitGetCommit(x, commits, outcome), refs |-> refs,
              commits |-> commits]
      [] x.pc = "CreateBlobs" ->
             [att |-> commitCreateBlob(x), refs |-> refs, commits |-> commits]
      [] x.pc = "BlobsPending" ->
             [att |-> commitBlobSettled(x, outcome), refs |-> refs,
              commits |-> commits]
      [] x.pc = "CreateTree" ->
             [att |-> commitCreateTree(x, outcome, policy), refs |-> refs,
              commits |-> commits]
      [] x.pc = "CreateCommit" ->
             [att |-> commitCreateCommit(x, commits, outcome, sameSecond).att,
              refs |-> refs,
              commits |->
                  commitCreateCommit(x, commits, outcome, sameSecond).commits]
      [] x.pc = "UpdateRef" ->
             [att |-> commitUpdateRef(x, refs, commits, outcome).att,
              refs |-> commitUpdateRef(x, refs, commits, outcome).refs,
              commits |-> commits]
      [] OTHER -> [att |-> x, refs |-> refs, commits |-> commits]

\* a PUT /commit and the POST /v1/push_files of the same one file, both
\* having resolved the same head
Paired(a, b) ==
    /\ att[a].kind = "commit" /\ att[b].kind = "push_files"
    /\ AsPushFiles(att[a]).body = att[b].body
    /\ att[a].latestCommitSha = att[b].latestCommitSha

\* C25: PUT /commit with (repo, branch, path, content, message) and POST
\* /v1/push_files with files = [(path, content)] and the same repo, branch
\* and message take the same course: validation decides alike; from every
\* point a PUT /commit reaches, for every behaviour of GitHub, the step
\* PUT /commit takes sends the same call with the same arguments and
\* leaves the attempt, the branch and the commits as the step POST
\* /v1/push_files takes from that point; and two such requests standing at
\* the same point on the same head have sent the same calls with the same
\* arguments and hold the same blobs and tree.
C25_SingleIsMultiOfOne ==
    /\ \A a \in Attempts :
          att[a].pc = "Idle" =>
              \A body \in CommitBodies :
                  SameCourse(commitReceive(body), receive(PushBodyOf(body)))
    /\ \A a \in Attempts :
          (att[a].kind = "commit" /\ att[a].pc # "Rejected"
               /\ ~Terminal(att[a])) =>
              \A outcome \in RefOutcomes, policy \in Policies,
                 sameSecond \in BOOLEAN :
                  LET one == AfterCommitStep(att[a], outcome, policy, sameSecond)
                      many == AfterStep(AsPushFiles(att[a]), outcome, policy,
                                        sameSecond, 1)
                  IN /\ SameCourse(one.att, many.att)
                     /\ one.refs = many.refs
                     /\ one.commits = many.commits
    /\ \A a, b \in Attempts :
          (Paired(a, b) /\ att[a].pc = att[b].pc /\ att[a].pc # "Aborted") =>
              /\ att[a].calls = att[b].calls
              /\ att[a].args = att[b].args
              /\ att[a].baseTreeSha = att[b].baseTreeSha
              /\ att[a].pending = att[b].pending => att[a].blobs = att[b].blobs
              /\ att[a].treeSha = att[b].treeSha

\* a PUT /commit and a push_files of the same single file have both gone
\* through, one after the other, each with the same seven calls sent with
\* the same arguments
C25_Witness ==
    \E a, b \in Attempts :
        /\ att[a].kind = "commit" /\ att[b].kind = "push_files"
        /\ AsPushFiles(att[a]).body = att[b].body
        /\ att[a].pc = "Committed" /\ att[b].pc = "Committed"
        /\ att[a].calls = att[b].calls
        /\ Len(att[a].calls) = 7
        /\ Len(att[a].args) = 7
        /\ att[a].blobs = att[b].blobs
        /\ commits[att[a].commitSha].tree = commits[att[b].commitSha].tree

\* the last file of the request with the path of file i
LastFor(files, i) ==
    CHOOSE j \in DOMAIN files :
        /\ files[j].path = files[i].path
        /\ \A k \in DOMAIN files : files[k].path = files[i].path => k <= j

\* C26: when a path occurs more than once in the file list of a request,
\* the entries given to createTree hold one entry per distinct path, and
\* the tree made holds for that path the content of its last occurrence.
C26_Original ==
    \A a \in Attempts :
        LET x == att[a] IN
        /\ (x.pc = "CreateTree" /\ RequestFiles(x) # <<>>) =>
               \A i, j \in DOMAIN x.blobs :
                   x.blobs[i].path = x.blobs[j].path => i = j
        /\ x.treeSha # NoTree =>
               \A i \in DOMAIN RequestFiles(x) :
                   x.treeSha[RequestFiles(x)[i].path] =
                       Utf8Bytes(RequestFiles(x)[LastFor(RequestFiles(x), i)].content)

(***************************************************************************)
(* Claims about failures found without GitHub                              *)
(***************************************************************************)
\* C27: every request that ends in NotFound or in a Validation failure
\* has made no call to GitHub.
C27_Original ==
    \A a \in Attempts :
        att[a].res.status \in {400, 404} => att[a].calls = <<>>

\* C28: search(c, q) with an empty query fails with a Validation failure
\* (400), returns no results and leaves the store unchanged.  Stated of
\* server.js's handler, for the contexts in the store.
C28_Original ==
    \A c \in DOMAIN contextStore :
        LET out == srv_search(contextStore, [context_id |-> c, query |-> <<>>])
        IN /\ out.res.status = 400
           /\ "results" \notin DOMAIN out.res
           /\ out.store = contextStore

\* C28 holds of part_000's handler (checked under Spec), for every context
\* id a request can carry.
C28_Part000 ==
    \A body \in SearchBodies :
        body.query = <<>> =>
            LET out == search(contextStore, body) IN
            /\ out.res.status = 400
            /\ "results" \notin DOMAIN out.res
            /\ out.store = contextStore

\* the tree entry the request's file i must become
EntryOf(file) ==
    [path |-> file.path, mode |-> "100644", type |-> "blob",
     sha |-> Utf8Bytes(file.content)]

BlobsDone(x) == x.pc \in {"CreateTree", "CreateCommit", "UpdateRef", "Committed"}

\* C29: in whatever order the createBlob calls of a request complete, the
\* entries the handler gives to createTree are one per request file, in
\* the order of the request, each path with the sha of the blob made from
\* that file's content, and the files list of the push_files response is
\* the same list of (path, sha); settling two outstanding calls in either
\* order leaves the attempt in the same state.
C29_BlobOrder ==
    \A a \in Attempts :
        LET x == att[a] IN
        /\ BlobsDone(x) =>
               /\ Len(x.blobs) = Len(RequestFiles(x))
               /\ \A i \in DOMAIN x.blobs : x.blobs[i] = EntryOf(RequestFiles(x)[i])
        /\ (x.pc = "Committed" /\ x.kind = "push_files") =>
               /\ Len(x.res.files) = Len(RequestFiles(x))
               /\ \A i \in DOMAIN x.res.files :
                      x.res.files[i] = [path |-> RequestFiles(x)[i].path,
                                        sha |-> Utf8Bytes(RequestFiles(x)[i].content)]
        /\ x.pc = "BlobsPending" =>
               /\ \A i \in DOMAIN x.blobs :
                      x.blobs[i] = IF i \in x.pending THEN NoBlob
                                   ELSE EntryOf(RequestFiles(x)[i])
               /\ \A i, j \in x.pending :
                      i # j =>
                          blobSettled(blobSettled(x, i, "ok"), j, "ok")
                              = blobSettled(blobSettled(x, j, "ok"), i, "ok")

\* a push of a.txt and b.txt went through with both files answered in
\* request order, while in another push of two files the second blob is
\* there and the first is still awaited
C29_Witness ==
    /\ \E a \in Attempts :
           /\ att[a].pc = "Committed" /\ att[a].kind = "push_files"
           /\ Len(att[a].res.files) = 2
           /\ att[a].res.files[1].path = "a.txt"
           /\ att[a].res.files[2].path = "b.txt"
    /\ \E a \in Attempts :
           /\ att[a].pc = "BlobsPending"
           /\ Len(att[a].blobs) = 2
           /\ att[a].pending = {1}
           /\ att[a].blobs[1] = NoBlob
           /\ att[a].blobs[2] = EntryOf(RequestFiles(att[a])[2])

(***************************************************************************)
(* Requests on one context that are in flight together.  The handlers of   *)
(* /v1/add_file and /v1/remove_file contain no await: once the event loop  *)
(* starts one it runs to its response before any other handler starts.     *)
(* Requests that have arrived wait their turn and are handled in any       *)
(* order.  Here `att` holds the requests: where each stands, what it asked *)
(* and what it was answered.                                               *)
(***************************************************************************)
MaxRequests == 3
Requests == 1..MaxRequests
RaceId == ContextId(0, 0)
RacePaths == {"a.txt"}

NoRequest(server) ==
    [pc |-> "Idle", server |-> server, op |-> "none", body |-> <<>>,
     res |-> NoResponse, done |-> 0]

RaceAddBodies ==
    [context_id : {RaceId}, path : RacePaths, content : SrvContents,
     repo : {Undefined}, branch : {Undefined}]
RaceRemoveBodies == [context_id : {RaceId}, path : RacePaths]

\* a handler whose writes go to a copy of the context and are dropped
handled_lost(x, store, t) ==
    [store |-> store,
     res |-> [op |-> x.op, status |-> 200]]

\* the handler of request x, run from its first line to its response on
\* the store as it is at that moment
handled(x, store, t) ==
    CASE x.server = "part_000" /\ x.op = "add_file" -> add_file(store, x.body, t)
      [] x.server = "part_000" /\ x.op = "remove_file" -> remove_file(store, x.body)
      [] x.server = "server.js" /\ x.op = "add_file" ->
             srv_add_file(store, x.body, t)
      [] x.server = "server.js" /\ x.op = "remove_file" ->
             srv_remove_file(store, x.body)

\* the number of requests answered so far
Answered == Cardinality({a \in Requests : att[a].pc = "Done"})

\* one server is running; the context was made by an earlier /v1/init
InitRace ==
    /\ contextStore = init(<<>>, 0, 0, 0).store
    /\ now = 0
    /\ res = init(<<>>, 0, 0, 0).res
    /\ issued = {RaceId}
    /\ sweepDue = 0
    /\ refs = [b \in {"main"} |-> 1]
    /\ commits = <<[message |-> "first", tree |-> BaseTree, parents |-> <<>>]>>
    /\ \E server \in Servers : att = [a \in Requests |-> NoRequest(server)]

Arrives(a, op, body) ==
    /\ att[a].pc = "Idle"
    /\ \A b \in Requests : b < a => att[b].pc # "Idle"
    /\ att' = [att EXCEPT ![a] = [@ EXCEPT !.pc = "InFlight", !.op = op,
                                           !.body = body]]
    /\ UNCHANGED <<contextStore, now, res, issued, sweepDue, refs, commits>>

RaceAddFile ==
    \E a \in Requests, body \in RaceAddBodies : Arrives(a, "add_file", body)

RaceRemoveFile ==
    \E a \in Requests, body \in RaceRemoveBodies :
        Arrives(a, "remove_file", body)

RaceHandle ==
    \E a \in Requests :
        /\ att[a].pc = "InFlight"
        /\ LET out == handled(att[a], contextStore, now) IN
               /\ contextStore' = out.store
               /\ res' = out.res
               /\ att' = [att EXCEPT ![a] = [@ EXCEPT !.pc = "Done",
                                                      !.res = out.res,
                                                      !.done = Answered + 1]]
        /\ UNCHANGED <<now, issued, sweepDue, refs, commits>>

NextRace == RaceAddFile \/ RaceRemoveFile \/ RaceHandle

SpecRace == InitRace /\ [][NextRace]_vars

(***************************************************************************)
(* Claims about requests that race                                         *)
(***************************************************************************)
\* the text of a stored entry: part_000 stores base64, server.js the text
TextOf(server, entry) ==
    IF server = "part_000" THEN decodeContent(entry.content) ELSE entry.content

EntriesAt(files, p) == {i \in DOMAIN files : files[i].path = p}

\* the requests answered 200, and the one of them answered last
WentThrough(p) ==
    {a \in Requests : att[a].pc = "Done" /\ att[a].res.status = 200
                          /\ att[a].body.path = p}
LastThrough(p) ==
    CHOOSE a \in WentThrough(p) :
        \A b \in WentThrough(p) : att[b].done <= att[a].done

\* C30: for addFile and removeFile calls on one context and path that are
\* in flight together, each call is applied whole when it completes, to
\* the state the calls completed before it left: an addFile that goes
\* through leaves the path with its content, a removeFile that goes
\* through leaves the path absent, a call that fails leaves the files as
\* they were; so at any time the path is present, and with which content,
\* as the last call that went through decides.
C30_LastToCompleteWins ==
    /\ [](\A p \in RacePaths :
             LET files == contextStore[RaceId].files IN
             IF WentThrough(p) = {} THEN EntriesAt(files, p) = {}
             ELSE LET x == att[LastThrough(p)] IN
                  IF x.op = "add_file"
                  THEN /\ Cardinality(EntriesAt(files, p)) = 1
                       /\ \A i \in EntriesAt(files, p) :
                              TextOf(x.server, files[i]) = x.body.content
                  ELSE EntriesAt(files, p) = {})
    /\ [][\A a \in Requests :
             (att[a].pc = "InFlight" /\ att'[a].pc = "Done") =>
                 LET x == att'[a]
                     before == contextStore[RaceId].files
                     after == contextStore'[RaceId].files
                 IN /\ x.done = Answered + 1
                    /\ x.res.status # 200 => after = before
                    /\ (x.res.status = 200 /\ x.op = "add_file") =>
                           /\ Cardinality(EntriesAt(after, x.body.path)) = 1
                           /\ \A i \in EntriesAt(after, x.body.path) :
                                  TextOf(x.server, after[i]) = x.body.content
                    /\ (x.res.status = 200 /\ x.op = "remove_file") =>
                           EntriesAt(after, x.body.path) = {}
                    /\ \A b \in Requests \ {a} : att'[b] = att[b]]_vars

\* three calls on a.txt were in flight together; an add arrived first but
\* completed last, after a remove that arrived later, and a.txt is there
\* with its content
C30_Witness ==
    /\ \A a \in Requests : att[a].pc = "Done"
    /\ att[1].op = "add_file" /\ att[1].done = MaxRequests
    /\ \E a \in Requests :
           /\ att[a].op = "remove_file" /\ att[a].res.status = 200
           /\ att[a].done = MaxRequests - 1
    /\ Len(contextStore[RaceId].files) = 1
    /\ TextOf(att[1].server, contextStore[RaceId].files[1]) = att[1].body.content

(***************************************************************************)
(* server.js on its event loop.  Node runs one callback at a time: a       *)
(* callback that has started keeps the thread until it returns or reaches  *)
(* an await, and only then does another callback start or go on.  Where a  *)
(* callback awaits is the program's: the handlers of lines 33-107 and the  *)
(* cleanup of lines 382-390 contain no await.  A handler is taken line by  *)
(* line here (its existence check, its write to the context, its answer)   *)
(* and the cleanup one context at a time, so that what lies between the    *)
(* steps of one callback can be asked about.  The run starts 25 hours      *)
(* after the first context was made, when the cleanup that will evict it   *)
(* falls due; `att` holds the timer callback (0) and the requests.         *)
(***************************************************************************)
MaxLoopRequests == 2
LoopRequests == 1..MaxLoopRequests
OldId == ContextId(0, 0)
YoungId == ContextId(RetentionMs, 0)
LoopStart == RetentionMs + SweepIntervalMs

LoopAddBodies ==
    [context_id : {OldId, YoungId}, path : {"a.txt"}, content : {<<97>>},
     repo : RepoNames, branch : {Undefined}]
LoopRemoveBodies == [context_id : {OldId, YoungId}, path : {"a.txt"}]

TimerIdle == [pc |-> "Idle", todo |-> {}]

\* a request not yet made; `before` is the store as the handler found it
\* at its existence check
LoopIdle ==
    [pc |-> "Idle", server |-> "server.js", op |-> "none", body |-> <<>>,
     res |-> NoResponse, before |-> <<>>]

\* the callback of task t has started and not ended
MidRun(t) ==
    IF t = 0 THEN att[0].pc = "Sweeping" ELSE att[t].pc \in {"Checked", "Written"}

\* handlers that wait for something between the existence check and the
\* write, as the handlers of part_000 that ask GitHub do
awaits_after_check(t) == t # 0 /\ att[t].pc = "Checked"

\* the callback of task t is at an await: server.js's context handlers and
\* its cleanup have none
awaits(t) == FALSE

\* the event loop lets task t take a step when every other callback that
\* has started and not ended is waiting at an await
mayRun(t) == \A u \in DOMAIN att \ {t} : MidRun(u) => awaits(u)

InitLoop ==
    /\ contextStore =
           srv_init(srv_add_file(srv_init(<<>>, 0, 0, 0).store,
                                 AddBody(OldId, "a.txt", <<97>>), 0).store,
                    RetentionMs, 0, RetentionMs).store
    /\ now = LoopStart
    /\ res = NoResponse
    /\ issued = {OldId, YoungId}
    /\ sweepDue = LoopStart
    /\ refs = [b \in {"main"} |-> 1]
    /\ commits = <<[message |-> "first", tree |-> BaseTree, parents |-> <<>>]>>
    /\ att = [t \in {0} \cup LoopRequests |->
                 IF t = 0 THEN TimerIdle ELSE LoopIdle]

LoopArrives(a, op, body) ==
    /\ att[a].pc = "Idle"
    /\ \A b \in LoopRequests : b < a => att[b].pc # "Idle"
    /\ att' = [att EXCEPT ![a] = [@ EXCEPT !.pc = "Queued", !.op = op,
                                           !.body = body]]
    /\ UNCHANGED <<contextStore, now, res, issued, sweepDue, refs, commits>>

LoopAddFile ==
    \E a \in LoopRequests, body \in LoopAddBodies :
        LoopArrives(a, "add_file", body)

LoopRemoveFile ==
    \E a \in LoopRequests, body \in LoopRemoveBodies :
        LoopArrives(a, "remove_file", body)

\* if (!contextStore.has(context_id)) return res.status(404)...
LoopCheck ==
    \E a \in LoopRequests :
        /\ att[a].pc = "Queued"
        /\ mayRun(a)
        /\ IF has(contextStore, att[a].body.context_id)
           THEN /\ att' = [att EXCEPT ![a] = [@ EXCEPT !.pc = "Checked",
                                                      !.before = contextStore]]
                /\ UNCHANGED res
           ELSE /\ att' = [att EXCEPT ![a] =
                              [@ EXCEPT !.pc = "Done",
                                        !.res = NotFoundContext(att[a].op)]]
                /\ res' = NotFoundContext(att[a].op)
        /\ UNCHANGED <<contextStore, now, issued, sweepDue, refs, commits>>

\* const context = contextStore.get(context_id), then the write to its
\* files: context.files[path] = { content, added: new Date() }, or
\* if (context.files[path]) delete context.files[path]
written(x, store, t) ==
    LET id == x.body.context_id
        context == store[id]
        entry == [path |-> x.body.path, content |-> x.body.content, added |-> t]
    IN IF x.op = "add_file"
       THEN [store EXCEPT ![id] =
                [context EXCEPT !.files = FilesSet(context.files, x.body.path, entry),
                                !.proto = ProtoSet(context.proto, x.body.path, entry)]]
       ELSE IF FilesGetTruthy(context.files, context.proto, x.body.path)
       THEN [store EXCEPT ![id].files = FilesDelete(context.files, x.body.path)]
       ELSE store

\* On a context that is gone `context` is undefined, context.files throws
\* and the request ends in an error.
LoopWrite ==
    \E a \in LoopRequests :
        /\ att[a].pc = "Checked"
        /\ mayRun(a)
        /\ IF has(contextStore, att[a].body.context_id)
           THEN /\ contextStore' = written(att[a], contextStore, now)
                /\ att' = [att EXCEPT ![a].pc = "Written"]
                /\ UNCHANGED res
           ELSE /\ att' = [att EXCEPT ![a] =
                              [@ EXCEPT !.pc = "Done",
                                        !.res = [op |-> att[a].op, status |-> 500]]]
                /\ res' = [op |-> att[a].op, status |-> 500]
                /\ UNCHANGED contextStore
        /\ UNCHANGED <<now, issued, sweepDue, refs, commits>>

\* if (repo) context.repoInfo = { repo, branch: branch || 'main' }, on the
\* context object the handler holds (in the store or not)
answeredStore(x, store) ==
    LET id == x.body.context_id IN
    IF x.op = "add_file" /\ x.body.repo \notin {Undefined, ""} /\ has(store, id)
    THEN [store EXCEPT ![id].repoInfo =
             [repo |-> x.body.repo,
              branch |-> IF x.body.branch \in {Undefined, ""}
                         THEN "main" ELSE x.body.branch]]
    ELSE store

\* ... res.json({ success: true })
LoopAnswer ==
    \E a \in LoopRequests :
        /\ att[a].pc = "Written"
        /\ mayRun(a)
        /\ contextStore' = answeredStore(att[a], contextStore)
        /\ res' = [op |-> att[a].op, status |-> 200]
        /\ att' = [att EXCEPT ![a] = [@ EXCEPT !.pc = "Done",
                                               !.res = [op |-> att[a].op,
                                                        status |-> 200]]]
        /\ UNCHANGED <<now, issued, sweepDue, refs, commits>>

\* the timer fires: for (const [contextId, context] of contextStore.entries())
LoopSweepStart ==
    /\ att[0].pc = "Idle"
    /\ now >= sweepDue
    /\ mayRun(0)
    /\ att' = [att EXCEPT ![0] = [pc |-> "Sweeping", todo |-> DOMAIN contextStore]]
    /\ sweepDue' = now + SweepIntervalMs
    /\ res' = NoResponse
    /\ UNCHANGED <<contextStore, now, issued, refs, commits>>

\* one turn of the loop, on the oldest entry not yet visited (a Map is
\* iterated in insertion order); after the last the callback returns
LoopSweepVisit ==
    /\ att[0].pc = "Sweeping"
    /\ mayRun(0)
    /\ IF att[0].todo = {}
       THEN /\ att' = [att EXCEPT ![0] = TimerIdle]
            /\ res' = [op |-> "sweep", status |-> 0]
            /\ UNCHANGED contextStore
       ELSE LET id == CHOOSE x \in att[0].todo :
                          \A y \in att[0].todo : x.t <= y.t
            IN /\ contextStore' =
                      IF has(contextStore, id) /\ expired(contextStore[id], now)
                      THEN MapDelete(contextStore, {id}) ELSE contextStore
               /\ att' = [att EXCEPT ![0].todo = @ \ {id}]
               /\ UNCHANGED res
    /\ UNCHANGED <<now, issued, sweepDue, refs, commits>>

NextLoop ==
    \/ LoopAddFile \/ LoopRemoveFile \/ LoopCheck \/ LoopWrite \/ LoopAnswer
    \/ LoopSweepStart \/ LoopSweepVisit

SpecLoop == InitLoop /\ [][NextLoop]_vars

(***************************************************************************)
(* Claims about the cleanup and the requests it meets                      *)
(***************************************************************************)
\* C31: the cleanup never runs between the steps of a request handler, nor
\* a handler between the steps of the cleanup.  A handler that has passed
\* its existence check finds its context in the store when it writes, and
\* when it answers the store is what the whole handler makes of the store
\* it checked: nothing was evicted or changed in between.  The cleanup
\* takes no step while an addFile or removeFile is part-way through, so it
\* sees no context between a handler's writes.  No request ends in an
\* error other than 404.
C31_NoInterleaving ==
    /\ [][\A a \in LoopRequests :
             /\ (att[a].pc = "Checked" /\ att'[a] # att[a]) =>
                    /\ has(contextStore, att[a].body.context_id)
                    /\ att[a].before = contextStore
                    /\ att'[a].pc = "Written"
             /\ (att[a].pc = "Written" /\ att'[a] # att[a]) =>
                    /\ att'[a].pc = "Done" /\ att'[a].res.status = 200
                    /\ contextStore' = handled(att[a], att[a].before, now).store]_vars
    /\ [][(att[0].pc = "Sweeping" /\ att'[0] # att[0]) =>
             \A a \in LoopRequests : att[a].pc \notin {"Checked", "Written"}]_vars
    /\ [](\A a \in LoopRequests :
             att[a].pc = "Done" => att[a].res.status \in {200, 404})

\* the cleanup has evicted the old context between two requests on it that
\* were both queued before: the one handled first, an addFile that names a
\* repo, was answered 200, the other 404
C31_Witness ==
    /\ ~has(contextStore, OldId) /\ has(contextStore, YoungId)
    /\ att[0].pc = "Idle" /\ res.op = "sweep"
    /\ \E a, b \in LoopRequests :
           /\ att[a].pc = "Done" /\ att[a].body.context_id = OldId
           /\ att[a].op = "add_file" /\ att[a].body.repo = "r1"
           /\ att[a].res.status = 200
           /\ att[b].pc = "Queued" /\ att[b].body.context_id = OldId

\* every context of `before` is in `after` with the creation time it had
CreatedKept(before, after) ==
    \A id \in DOMAIN before :
        has(after, id) /\ after[id].created = before[id].created

\* the contexts of the store as part_000's create makes them, at the same
\* times
AsPart000 ==
    [id \in DOMAIN contextStore |->
        [created |-> contextStore[id].created, files |-> <<>>,
         proto |-> ObjectPrototype, repoInfo |-> NullInfo]]

\* C32: a context's creation time is a clock reading of the create call
\* that made it (the one in its id or one taken up to MaxLag later);
\* addFile, removeFile, getContext and search, of server.js and of
\* part_000, leave it as it was, and so does every step the store takes
\* that is no create call; hence a context is gone once the cleanup has
\* run more than 24 hours after its creation, however lately it was used.
C32_CreatedFixed ==
    /\ [](/\ \A id \in DOMAIN contextStore :
                /\ contextStore[id].created >= id.t
                /\ contextStore[id].created <= id.t + MaxLag
          /\ \A body \in SrvAddFileBodies :
                /\ CreatedKept(contextStore,
                               srv_add_file(contextStore, body, now).store)
                /\ LET added == add_file(AsPart000, body, now).store
                       named == [context_id |-> body.context_id]
                       asked == [context_id |-> body.context_id,
                                 query |-> body.content]
                   IN /\ CreatedKept(AsPart000, added)
                      /\ CreatedKept(AsPart000,
                             remove_file(added, [context_id |-> body.context_id,
                                                 path |-> body.path]).store)
                      /\ CreatedKept(AsPart000, get_context(added, named).store)
                      /\ CreatedKept(AsPart000, search(added, asked).store)
          /\ \A body \in SrvRemoveFileBodies :
                CreatedKept(contextStore,
                            srv_remove_file(contextStore, body).store)
          /\ \A query \in GetContextQueries :
                CreatedKept(contextStore,
                            srv_get_context(contextStore, query).store)
          /\ \A body \in SearchBodies :
                CreatedKept(contextStore, srv_search(contextStore, body).store)
          /\ \A id \in issued :
                lastSweep > id.t + RetentionMs => ~has(contextStore, id)
          /\ \A id \in DOMAIN contextStore :
                lastSweep <= contextStore[id].created + RetentionMs)
    /\ [][res'.op # "init" =>
             \A id \in DOMAIN contextStore \cap DOMAIN contextStore' :
                 contextStore'[id].created = contextStore[id].created]_vars

\* a context that is 24 hours old holds a file added an hour after its
\* creation, and its creation time is still that of the create call
C32_Witness ==
    \E id \in DOMAIN contextStore :
        /\ now = id.t + RetentionMs
        /\ contextStore[id].created = id.t
        /\ \E i \in 1..Len(contextStore[id].files) :
               contextStore[id].files[i].added = id.t + HourMs

(***************************************************************************)
(* Claims about the aggregates of a search response                        *)
(***************************************************************************)
\* a line of n letters a
Run(n) == [i \in 1..n |-> 97]

\* texts with a line of exactly 100 characters, of 101, and of 101 followed
\* by a short line
LongTexts ==
    {Run(PreviewLen), Run(PreviewLen + 1), Run(PreviewLen + 1) \o <<Newline, 97>>}

\* the response `out` to a search for `query` over `files` is consistent
SearchConsistent(files, query, out) ==
    LET text(i) == decodeContent(files[i].content)
        with == SelectSeq([i \in 1..Len(files) |-> i],
                          LAMBDA i : MatchingLines(text(i), query) # {})
    IN /\ Len(out.results) = Len(with)
       /\ \A j \in 1..Len(out.results) :
             LET r == out.results[j]
             IN /\ r.path = files[with[j]].path
                /\ Len(r.matches) >= 1
                /\ r.match_count = Len(r.matches)
                /\ {r.matches[m].line : m \in 1..Len(r.matches)}
                       = MatchingLines(text(with[j]), query)
                /\ \A m \in 1..Len(r.matches) :
                      LET line == LineText(text(with[j]), r.matches[m].line) IN
                      /\ r.matches[m].content = line
                      /\ \A n \in 1..(m - 1) :
                            r.matches[n].line < r.matches[m].line
                      /\ r.matches[m].preview =
                             IF Len(line) <= PreviewLen THEN line
                             ELSE SubSeq(line, 1, PreviewLen) \o <<46, 46, 46>>
       /\ out.total_matches =
              SumLen([j \in 1..Len(out.results) |-> out.results[j].matches])
       /\ out.files_searched = Len(files)

\* C33: in every successful search response the results are the files with
\* at least one matching line, in the files' order; each result's
\* match_count is the length of its match list, which lists each matching
\* line once; total_matches is the sum of the match counts; files_searched
\* is the number of files in the context; and a match's preview is its line
\* when the line has at most 100 characters and otherwise the line's first
\* 100 characters followed by '...'.  Checked of the files in the store
\* and, for the preview, of the matches of texts with a line of 100 and of
\* 101 characters.
C33_SearchAggregates ==
    /\ \A body \in SearchBodies :
          LET out == search(contextStore, body).res IN
          out.status = 200 =>
              SearchConsistent(contextStore[body.context_id].files,
                               body.query, out)
    /\ \A text \in LongTexts :
          LET matches == fileMatches(text, <<97>>) IN
          /\ Len(matches) = LineCount(text)
          /\ \A m \in 1..Len(matches) :
                LET line == LineText(text, m) IN
                /\ matches[m].line = m
                /\ matches[m].content = line
                /\ matches[m].preview =
                       IF Len(line) <= PreviewLen THEN line
                       ELSE SubSeq(line, 1, PreviewLen) \o <<46, 46, 46>>
                /\ Len(matches[m].preview) =
                       IF Len(line) <= PreviewLen THEN Len(line)
                       ELSE PreviewLen + 3

\* a search over a context of two files was answered with one of them, the
\* other having no matching line
C33_Witness ==
    /\ res.op = "search" /\ res.status = 200
    /\ res.files_searched = 2
    /\ Len(res.results) = 1
    /\ res.total_matches = 1

(***************************************************************************)
(* Claims about the blobs and the tree of one request                      *)
(***************************************************************************)
\* the request of attempt x was given up because a createBlob failed
BlobFailed(x) ==
    /\ x.pc = "Aborted"
    /\ x.calls # <<>>
    /\ LastCall(x) = "git.createBlob"

\* C34: createTree is issued only when every createBlob of the request has
\* succeeded: at the step that issues it no blob call is outstanding and
\* the handler holds the entry of every file.  Once a createBlob has failed
\* the request is over with status 500: neither createTree, createCommit
\* nor updateRef is issued for it, then or later, and the createBlob calls
\* still outstanding may complete, which changes nothing but their number.
C34_TreeAfterAllBlobs ==
    /\ [](\A a \in Attempts :
             LET x == att[a] IN
             /\ Count(x, "git.createTree") >= 1 =>
                    /\ x.pending = {}
                    /\ Len(x.blobs) = Len(RequestFiles(x))
                    /\ \A i \in DOMAIN x.blobs :
                           x.blobs[i] = EntryOf(RequestFiles(x)[i])
             /\ BlobFailed(x) =>
                    /\ x.res.status = 500
                    /\ Count(x, "git.createTree") = 0
                    /\ Count(x, "git.createCommit") = 0
                    /\ Count(x, "git.updateRef") = 0
                    /\ \E i \in DOMAIN x.blobs : x.blobs[i] = NoBlob)
    /\ [][\A a \in Attempts :
             /\ Count(att'[a], "git.createTree") > Count(att[a], "git.createTree") =>
                    /\ att[a].pc = "CreateTree"
                    /\ att[a].pending = {}
                    /\ \A i \in DOMAIN att[a].blobs : att[a].blobs[i] # NoBlob
             /\ (BlobFailed(att[a]) /\ att'[a] # att[a]) =>
                    /\ att'[a] = [att[a] EXCEPT !.pending = att'[a].pending]
                    /\ Cardinality(att'[a].pending) + 1
                           = Cardinality(att[a].pending)
                    /\ refs' = refs /\ commits' = commits]_vars

\* a push of two files was given up when one createBlob failed, the other
\* call has completed since, and its result was dropped
C34_Witness ==
    \E a \in Attempts :
        /\ BlobFailed(att[a])
        /\ Len(RequestFiles(att[a])) = 2
        /\ att[a].pending = {}
        /\ att[a].blobs = <<NoBlob, NoBlob>>
        /\ att[a].res.status = 500

(***************************************************************************)
(* The context store of part_000 over a long time: a context is made and   *)
(* used, more than 25 hours pass, and requests on it arrive again.         *)
(* part_000 sets no timer and deletes no context.                          *)
(***************************************************************************)
MaxAgedHours == 26

AgedAddBodies ==
    [context_id : issued, path : {"a.txt"}, content : SrvContents,
     repo : {Undefined}, branch : {Undefined}]

\* requests arrive at the start and after the wait
AgedBusy == now = 0 \/ now > RetentionMs + SweepIntervalMs

AgedInit ==
    /\ now = 0
    /\ V1Init

AgedAddFile ==
    \E body \in AgedAddBodies :
        /\ AgedBusy
        /\ Handle(add_file(contextStore, body, now))
        /\ UNCHANGED <<now, issued, sweepDue, refs, commits, att>>

AgedRemoveFile ==
    \E id \in issued :
        /\ AgedBusy
        /\ Handle(remove_file(contextStore, [context_id |-> id, path |-> "a.txt"]))
        /\ UNCHANGED <<now, issued, sweepDue, refs, commits, att>>

AgedGetContext ==
    \E id \in issued :
        /\ AgedBusy
        /\ Handle(get_context(contextStore, [context_id |-> id]))
        /\ UNCHANGED <<now, issued, sweepDue, refs, commits, att>>

AgedSearch ==
    \E id \in issued :
        /\ AgedBusy
        /\ Handle(search(contextStore, [context_id |-> id, query |-> <<97>>]))
        /\ UNCHANGED <<now, issued, sweepDue, refs, commits, att>>

AgedTick ==
    /\ now < MaxAgedHours * HourMs
    /\ now' = now + HourMs
    /\ res' = NoResponse
    /\ UNCHANGED <<contextStore, issued, sweepDue, refs, commits, att>>

NextAged ==
    \/ AgedInit \/ AgedAddFile \/ AgedRemoveFile \/ AgedGetContext
    \/ AgedSearch \/ AgedTick

SpecAged == Init /\ [][NextAged]_vars

(***************************************************************************)
(* Claims about how long an expired context is served                      *)
(***************************************************************************)
\* context `id` is older than the retention window and one cleanup interval
Overdue(id) ==
    /\ has(contextStore, id)
    /\ now - contextStore[id].created > RetentionMs + SweepIntervalMs

\* C35 as stated, of the handlers of part_000: no addFile, removeFile,
\* getContext or search succeeds on a context that is more than 24 hours
\* and one cleanup interval old.
C35_Original ==
    \A id \in issued :
        Overdue(id) =>
            /\ add_file(contextStore, AddBody(id, "a.txt", <<97>>), now).res.status # 200
            /\ remove_file(contextStore,
                           [context_id |-> id, path |-> "a.txt"]).res.status # 200
            /\ get_context(contextStore, [context_id |-> id]).res.status # 200
            /\ search(contextStore,
                      [context_id |-> id, query |-> <<97>>]).res.status # 200

\* the same of the handlers of server.js, whose cleanup timer may fire late
C35_ServerJs ==
    \A id \in issued :
        Overdue(id) =>
            /\ srv_add_file(contextStore, AddBody(id, "a.txt", <<97>>), now).res.status # 200
            /\ srv_remove_file(contextStore,
                               [context_id |-> id, path |-> "a.txt"]).res.status # 200
            /\ srv_get_context(contextStore, [context_id |-> id]).res.status # 200
            /\ srv_search(contextStore,
                          [context_id |-> id, query |-> <<97>>]).res.status # 200

(***************************************************************************)
(* Claims about a context's files as a map from paths                      *)
(***************************************************************************)
\* the paths getContext reports for context c of `store`
PathsShown(store, c) ==
    LET g == get_context(store, [context_id |-> c]).res IN
    {g.files[i].path : i \in 1..Len(g.files)}

\* C36 as stated, one request at a time from any state of the store: for
\* every path p, the names every object inherits included, a successful
\* addFile(c, p, v) makes the reported paths those reported before and p,
\* removeFile(c, p) succeeds if and only if p was reported, and afterwards
\* the reported paths are those reported before without p.
C36_Original ==
    \A c \in DOMAIN contextStore :
      \A p \in Paths \ {""} :
        LET before == PathsShown(contextStore, c)
            added == add_file(contextStore, AddBody(c, p, <<97>>), now)
            removed == remove_file(contextStore, [context_id |-> c, path |-> p])
        IN /\ added.res.status = 200 =>
                  PathsShown(added.store, c) = before \cup {p}
           /\ removed.res.status = 200 <=> p \in before
           /\ PathsShown(removed.store, c) = before \ {p}

\* the same for the paths that are no name the files object inherits
C36_OrdinaryPaths ==
    \A c \in DOMAIN contextStore :
      \A p \in {q \in Paths \ {""} : ~InheritedTruthy(contextStore[c].proto, q)} :
        LET before == PathsShown(contextStore, c)
            added == add_file(contextStore, AddBody(c, p, <<97>>), now)
            removed == remove_file(contextStore, [context_id |-> c, path |-> p])
        IN /\ added.res.status = 200
           /\ PathsShown(added.store, c) = before \cup {p}
           /\ removed.res.status = 200 <=> p \in before
           /\ PathsShown(removed.store, c) = before \ {p}

(***************************************************************************)
(* The branch endpoints as a state machine: DELETE /branch, POST /branch    *)
(* and POST /pullrequest/merge of part_000 and of server.js, and PUT       *)
(* /commit of server.js.  `refs` are the branches of the one repository    *)
(* there is; `att` holds the requests, each handler taken from one await   *)
(* to the next.                                                            *)
(***************************************************************************)
MaxDeletes == 2
Deletes == 1..MaxDeletes
Protected == {"main", "master"}

DeleteBodies == [repoName : {"r1", "r9", ""}, branchName : {"main", "master", "dev", ""}]
CreateBranchBodies ==
    [repoName : {"r1", "r9"}, newBranchName : {"topic", "dev", ""},
     fromBranch : {Undefined, "dev", "gone"}]
MergeBodies ==
    [repoName : {"r1", "r9"}, pullNumber : {1, 2, 3, NoNumber},
     commitTitle : {Undefined}, commitMessage : {""}]
\* "7" for a.txt or d.txt
SrvCommitBodies ==
    [repoName : {"r1"}, branch : {Undefined, "dev"},
     path : {"a.txt", "d.txt"}, content : {<<55>>}, message : {"s"}]
        \cup [repoName : {"r9"}, branch : {"main"}, path : {"a.txt"},
              content : {<<55>>}, message : {"s"}]

NoDelete(server) ==
    [IdleRequest(server) EXCEPT !.body = [repoName |-> "", branchName |-> ""]]

answered(x, status, error) ==
    [x EXCEPT !.pc = "Done",
              !.res = [op |-> "delete_branch", status |-> status, error |-> error]]

\* the request reaches the handler: part_000 validates the body first
\* (schemas.deleteBranch: both strings required, and Joi refuses the empty
\* string), server.js goes straight to deleteRef
receiveDelete(x0, body) ==
    LET x == [x0 EXCEPT !.op = "delete_branch", !.body = body] IN
    IF x.server = "server.js" THEN [x EXCEPT !.pc = "DeleteRef"]
    ELSE IF body.repoName = "" \/ body.branchName = ""
    THEN answered(x, 400, "Validation error")
    ELSE [x EXCEPT !.pc = "CheckRepo"]

\* part_000: if (!await checkRepoExists(repoName)) ...; then the test for
\* main and master, which stands before the deleteRef call
checkRepoDelete(x0, outcome) ==
    LET x == called(x0, "repos.get") IN
    IF outcome = "error" THEN answered(x, 500, "Failed to delete branch")
    ELSE IF x.body.repoName \notin Repos
    THEN answered(x, 404, "Repository not found")
    ELSE IF x.body.branchName = "main" \/ x.body.branchName = "master"
    THEN answered(x, 400, "Cannot delete main or master branch")
    ELSE [x EXCEPT !.pc = "DeleteRef"]

\* await octokit.git.deleteRef(...): GitHub deletes the ref, or answers 422
\* or 404 when there is no such ref or repository, or the call fails
deleteRef(x0, rf, outcome) ==
    LET x == called(x0, "git.deleteRef")
        there == x.body.repoName \in Repos /\ x.body.branchName \in DOMAIN rf
    IN
    IF outcome = "error"
    THEN [att |-> answered(x, 500, IF x.server = "part_000"
                                   THEN "Failed to delete branch"
                                   ELSE "Upstream error"),
          refs |-> rf]
    ELSE IF ~there
    THEN [att |-> IF x.server = "part_000"
                  THEN answered(x, 404, "Branch " \o x.body.branchName
                                            \o " not found")
                  ELSE answered(x, 500, "Reference does not exist"),
          refs |-> rf]
    ELSE [att |-> [x EXCEPT !.pc = "Done",
                       !.res = IF x.server = "part_000"
                               THEN [op |-> "delete_branch", status |-> 200,
                                     success |-> TRUE,
                                     message |-> "Branch " \o x.body.branchName
                                                     \o " deleted"]
                               ELSE [op |-> "delete_branch", status |-> 200,
                                     message |-> "Branch " \o x.body.branchName
                                                     \o " deleted."]],
          refs |-> [b \in DOMAIN rf \ {x.body.branchName} |-> rf[b]]]

\* the repository before the requests: dev is one commit ahead of main
\* (d.txt = "8"), so pull request 1 is open
InitBranch ==
    /\ contextStore = <<>>
    /\ now = 0
    /\ res = NoResponse
    /\ issued = {}
    /\ sweepDue = 0
    /\ refs = ("dev" :> 2) @@ [b \in {"main", "master"} |-> 1]
    /\ commits = <<[message |-> "first", tree |-> BaseTree, parents |-> <<>>],
                   [message |-> "second", tree |-> ("d.txt" :> <<56>>) @@ BaseTree,
                    parents |-> <<1>>]>>
    /\ \E server \in Servers : att = [a \in Deletes |-> NoDelete(server)]

StepDelete(a, x) ==
    /\ att' = [att EXCEPT ![a] = x]
    /\ res' = x.res
    /\ UNCHANGED <<contextStore, now, issued, sweepDue>>

\* request a arrives
Incoming(a) ==
    /\ att[a].pc = "Idle"
    /\ \A b \in Deletes : b < a => att[b].pc # "Idle"

\* request a is at `pc` in the handler of `op`
At(a, op, pc) == att[a].op = op /\ att[a].pc = pc

DeleteBranch ==
    \E a \in Deletes, body \in DeleteBodies :
        /\ Incoming(a)
        /\ StepDelete(a, receiveDelete(att[a], body))
        /\ UNCHANGED <<refs, commits>>

DeleteCheckRepo ==
    \E a \in Deletes, outcome \in Outcomes :
        /\ At(a, "delete_branch", "CheckRepo")
        /\ StepDelete(a, checkRepoDelete(att[a], outcome))
        /\ UNCHANGED <<refs, commits>>

DeleteRef ==
    \E a \in Deletes, outcome \in Outcomes :
        /\ At(a, "delete_branch", "DeleteRef")
        /\ LET out == deleteRef(att[a], refs, outcome) IN
               /\ StepDelete(a, out.att)
               /\ refs' = out.refs
        /\ UNCHANGED commits

CreateBranch ==
    \E a \in Deletes, body \in CreateBranchBodies :
        /\ Incoming(a)
        /\ StepDelete(a, receiveCreate(att[a], body))
        /\ UNCHANGED <<refs, commits>>

CreateCheckRepo ==
    \E a \in Deletes, outcome \in Outcomes :
        /\ At(a, "create_branch", "CheckRepo")
        /\ StepDelete(a, checkRepoCreate(att[a], outcome))
        /\ UNCHANGED <<refs, commits>>

CreateGetRef ==
    \E a \in Deletes, outcome \in Outcomes :
        /\ At(a, "create_branch", "GetRef")
        /\ StepDelete(a, getRefCreate(att[a], refs, outcome))
        /\ UNCHANGED <<refs, commits>>

CreateRef ==
    \E a \in Deletes, outcome \in Outcomes :
        /\ At(a, "create_branch", "CreateRef")
        /\ LET out == createRef(att[a], refs, commits, outcome) IN
               /\ StepDelete(a, out.att)
               /\ refs' = out.refs
        /\ UNCHANGED commits

MergePull ==
    \E a \in Deletes, body \in MergeBodies :
        /\ Incoming(a)
        /\ StepDelete(a, receiveMerge(att[a], body))
        /\ UNCHANGED <<refs, commits>>

MergeCheckRepo ==
    \E a \in Deletes, outcome \in Outcomes :
        /\ At(a, "merge", "CheckRepo")
        /\ StepDelete(a, checkRepoMerge(att[a], outcome))
        /\ UNCHANGED <<refs, commits>>

PullsMerge ==
    \E a \in Deletes, outcome \in Outcomes, sameSecond \in BOOLEAN :
        /\ At(a, "merge", "Merge")
        /\ LET out == pullsMerge(att[a], refs, commits, outcome, sameSecond) IN
               /\ StepDelete(a, out.att)
               /\ refs' = out.refs
               /\ commits' = out.commits

\* PUT /commit as server.js has it
SrvPutCommit ==
    \E a \in Deletes, body \in SrvCommitBodies :
        /\ Incoming(a)
        /\ att[a].server = "server.js"
        /\ StepDelete(a, srv_receiveCommit(att[a], body))
        /\ UNCHANGED <<refs, commits>>

SrvGetContent ==
    \E a \in Deletes, outcome \in Outcomes :
        /\ At(a, "srv_commit", "GetContent")
        /\ StepDelete(a, srv_getContent(att[a], refs, commits, outcome))
        /\ UNCHANGED <<refs, commits>>

SrvPutContents ==
    \E a \in Deletes, outcome \in Outcomes, sameSecond \in BOOLEAN :
        /\ At(a, "srv_commit", "PutContents")
        /\ LET out == srv_putContents(att[a], refs, commits, outcome,
                                      sameSecond) IN
               /\ StepDelete(a, out.att)
               /\ refs' = out.refs
               /\ commits' = out.commits

NextBranch ==
    \/ DeleteBranch \/ DeleteCheckRepo \/ DeleteRef
    \/ CreateBranch \/ CreateCheckRepo \/ CreateGetRef \/ CreateRef
    \/ MergePull \/ MergeCheckRepo \/ PullsMerge
    \/ SrvPutCommit \/ SrvGetContent \/ SrvPutContents

SpecBranch == InitBranch /\ [][NextBranch]_vars

(***************************************************************************)
(* Claims about DELETE /branch                                             *)
(***************************************************************************)
\* request a, for main or master, leads to no deleteRef call and is refused
Refused(a) ==
    (att[a].op = "delete_branch" /\ att[a].body.branchName \in Protected) =>
        /\ Count(att[a], "git.deleteRef") = 0
        /\ att[a].pc # "DeleteRef"
        /\ att[a].pc = "Done" => att[a].res.status \in {400, 404, 500}

\* C37 as stated, of both servers: a DELETE /branch for main or master
\* leads to no deleteRef call and is refused, and main and master exist
\* after every sequence of requests.
C37_Original ==
    /\ \A a \in Deletes : Refused(a)
    /\ Protected \subseteq DOMAIN refs

\* the same of part_000 alone
C37_Part000 ==
    (\A a \in Deletes : att[a].server = "part_000") =>
        /\ \A a \in Deletes : Refused(a)
        /\ Protected \subseteq DOMAIN refs

====
